---- MODULE Spec2Model ----
(***************************************************************************)
(* Model of the listings cache of src/lib/api.ts (fetchActiveListings,     *)
(* invalidateListingsCache) and of the Dashboard component that drives it  *)
(* (src/components/Dashboard.tsx: the load effect, the filter handlers and *)
(* the Refresh button): specification Spec.  Specification SpecApi has the *)
(* exported fetch functions of api.ts called directly; specification       *)
(* SpecFn applies the pure functions of api.ts and AptosClient.ts to one   *)
(* input each.                                                             *)
(*                                                                         *)
(* Scheduling follows the browser event loop: a handler runs to its end,   *)
(* an async function runs synchronously up to its first pending await, a   *)
(* continuation behind an already settled promise runs before any other    *)
(* task, and React runs the passive effect of a committed render before it *)
(* handles the next event or task.                                         *)
(***************************************************************************)
EXTENDS Integers, Sequences, FiniteSets, TLC

\* ------------------------------------------------------------------ bounds
\* number of fetchActiveListings calls the Dashboard may start in one run
MaxCalls == 3
\* number of clock steps in one run
MaxTicks == 2
\* highest page number the pagination control offers
MaxPage == 2
\* number of user events (handler invocations) in one run
MaxInputs == 2

\* --------------------------------------------------------- program constants
\* api.ts:25
CACHE_EXPIRATION == 5 * 60 * 1000
\* Dashboard.tsx:74
pageSize == 8
\* one clock step: half of the expiration window, so that an entry can be
\* younger than, exactly as old as, and older than the window
TickMs == 150 * 1000

\* JavaScript undefined and null
Undefined == "<undefined>"
Null == "<null>"

\* the messages loadListings can set (Dashboard.tsx:128, 132)
MsgNoListings == "No listings found. The API may be unavailable currently."
MsgFailed == "Failed to load listings: "

\* ------------------------------------------------------------ JSON.stringify
Digits == <<"0", "1", "2", "3", "4", "5", "6", "7", "8", "9">>

RECURSIVE NumberToString(_)
NumberToString(n) ==
  IF n < 10 THEN Digits[n + 1]
  ELSE NumberToString(n \div 10) \o Digits[(n % 10) + 1]

\* the JSON text of a string, a number, a boolean; an undefined value has none
JsonString(s) == IF s = Undefined THEN Undefined ELSE "\"" \o s \o "\""
JsonNumber(n) == NumberToString(n)
JsonBoolean(b) == IF b THEN "true" ELSE "false"

RECURSIVE JoinProps(_)
JoinProps(props) ==
  IF Len(props) = 0 THEN ""
  ELSE "\"" \o props[1][1] \o "\":" \o props[1][2]
       \o (IF Len(props) = 1 THEN "" ELSE "," \o JoinProps(Tail(props)))

\* JSON.stringify of an object literal, given as its properties in insertion
\* order, each <<name, JSON text of the value>>: a property whose value is
\* undefined is left out, the others keep their order
JSONstringify(obj) ==
  "{" \o JoinProps(SelectSeq(obj, LAMBDA p : p[2] # Undefined)) \o "}"

\* x || undefined  for a string x
OrUndefined(s) == IF s = "" THEN Undefined ELSE s

\* ------------------------------------------------------------ string helpers
LowerOf(c) ==
  CASE c = "A" -> "a" [] c = "B" -> "b" [] c = "C" -> "c" [] c = "D" -> "d"
    [] c = "E" -> "e" [] c = "F" -> "f" [] c = "G" -> "g" [] c = "H" -> "h"
    [] c = "I" -> "i" [] c = "J" -> "j" [] c = "K" -> "k" [] c = "L" -> "l"
    [] c = "M" -> "m" [] c = "N" -> "n" [] c = "O" -> "o" [] c = "P" -> "p"
    [] c = "Q" -> "q" [] c = "R" -> "r" [] c = "S" -> "s" [] c = "T" -> "t"
    [] c = "U" -> "u" [] c = "V" -> "v" [] c = "W" -> "w" [] c = "X" -> "x"
    [] c = "Y" -> "y" [] c = "Z" -> "z"
    [] OTHER -> c

RECURSIVE toLowerCase(_)
toLowerCase(s) ==
  IF Len(s) = 0 THEN ""
  ELSE LowerOf(SubSeq(s, 1, 1)) \o toLowerCase(SubSeq(s, 2, Len(s)))

includes(s, sub) ==
  \E i \in 1..(Len(s) - Len(sub) + 1) : SubSeq(s, i, i + Len(sub) - 1) = sub

\* encodeURIComponent on the characters the modelled names contain
EncodeChar(c) == IF c = " " THEN "%20" ELSE IF c = "#" THEN "%23" ELSE c

RECURSIVE encodeURIComponent(_)
encodeURIComponent(s) ==
  IF Len(s) = 0 THEN ""
  ELSE EncodeChar(SubSeq(s, 1, 1)) \o encodeURIComponent(SubSeq(s, 2, Len(s)))

\* ----------------------------------------------------------- upstream data
\* One row of current_nft_marketplace_listings.  description is
\* current_token_data.description, cdn_image_uri is
\* current_token_data.cdn_asset_uris.cdn_image_uri; "" stands for an absent
\* field (and an absent cdn_asset_uris object).
RowApe ==
  [token_data_id |-> "0xa", listing_id |-> "1", token_name |-> "Ape",
   marketplace |-> "Topaz", description |-> "An ape",
   cdn_image_uri |-> "https://cdn/ape.png"]
RowBee ==
  [token_data_id |-> "0xb", listing_id |-> "2", token_name |-> "Bee",
   marketplace |-> "wapal", description |-> "", cdn_image_uri |-> ""]
RowNameless ==
  [token_data_id |-> "0xc", listing_id |-> "3", token_name |-> "",
   marketplace |-> "wapal", description |-> "No name",
   cdn_image_uri |-> "https://cdn/c.png"]

\* The decoded JSON bodies the indexer answers with.  kind "rows" is
\* {data: {current_nft_marketplace_listings: rows, ..._aggregate: count}};
\* a count of 0 also stands for a missing aggregate (both are falsy).
BodyRows(rows, count) == [kind |-> "rows", rows |-> rows, count |-> count]
BodyErrors == [kind |-> "errors", rows |-> <<>>, count |-> 0]
BodyNoData == [kind |-> "no_data", rows |-> <<>>, count |-> 0]
BodyNotArray == [kind |-> "not_array", rows |-> <<>>, count |-> 0]

OkBodies ==
  { BodyRows(<<>>, 0), BodyRows(<<RowApe>>, 1),
    BodyRows(<<RowNameless, RowBee, RowApe>>, 20) }
Bodies == OkBodies \cup {BodyErrors, BodyNoData, BodyNotArray}

\* ----------------------------------------------- api.ts: fetchActiveListings
\* the object every failure path returns; src is the identity of the object:
\* 0 for a fresh sentinel, the id of the call for a computed result
EmptyResult == [nfts |-> <<>>, total |-> 0, src |-> 0]
NoResult == [nfts |-> <<>>, total |-> 0, src |-> -1]

\* api.ts:342-343
cacheParams(p) ==
  << <<"page", JsonNumber(p.page)>>,
     <<"pageSize", JsonNumber(p.pageSize)>>,
     <<"collection", JsonString(p.collection)>>,
     <<"marketplace", JsonString(p.marketplace)>>,
     <<"sortOrder", JsonString(p.sortOrder)>>,
     <<"hideIncompleteMetadata", JsonBoolean(p.hideIncompleteMetadata)>> >>
cacheKey(p) == JSONstringify(cacheParams(p))

\* variants of the expiration check: the comparison turned round, and the
\* window taken inclusive
CacheValid_Inverted(cache, key, skipCache, t) ==
  /\ ~skipCache
  /\ key \in DOMAIN cache
  /\ t - cache[key].timestamp > CACHE_EXPIRATION

CacheValid_Inclusive(cache, key, skipCache, t) ==
  /\ ~skipCache
  /\ key \in DOMAIN cache
  /\ t - cache[key].timestamp <= CACHE_EXPIRATION

\* api.ts:346-356: the entry is used when present, not skipped and younger
\* than the expiration window
CacheValid(cache, key, skipCache, t) ==
  /\ ~skipCache
  /\ key \in DOMAIN cache
  /\ t - cache[key].timestamp < CACHE_EXPIRATION

\* api.ts:496-505
KeepListing(listing) ==
  \/ /\ listing.marketplace # ""
     /\ includes(toLowerCase(listing.marketplace), "topaz")
  \/ listing.token_name # ""

\* api.ts:506-553, for rows that have a token name or a CDN image, no other
\* image source and a well-formed timestamp (NormalizeListing has the rest)
MapListing(listing) ==
  LET imageUrl ==
        IF listing.cdn_image_uri # "" THEN listing.cdn_image_uri
        ELSE "https://via.placeholder.com/500x500?text="
             \o encodeURIComponent(listing.token_name)
      hasCompleteName == listing.token_name # ""
      hasDescription == listing.description # ""
      hasImage == imageUrl # ""
  IN [id |-> IF listing.token_data_id # "" THEN listing.token_data_id
             ELSE "listing-" \o listing.listing_id,
      name |-> IF listing.token_name # "" THEN listing.token_name
               ELSE "NFT #" \o (IF listing.listing_id # ""
                                THEN listing.listing_id ELSE "Unknown"),
      description |-> IF listing.description # "" THEN listing.description
                      ELSE "No description available",
      image_url |-> imageUrl,
      hasCompleteMetadata |-> hasCompleteName /\ hasDescription /\ hasImage]

\* variant: the slice is taken from the first element
slice_FromFirst(s, start, end) ==
  SubSeq(s, 1, IF end - start < Len(s) THEN end - start ELSE Len(s))

\* Array.prototype.slice(start, end) with 0 <= start <= end
slice(s, start, end) ==
  IF start >= Len(s) THEN <<>>
  ELSE SubSeq(s, start + 1, IF end < Len(s) THEN end ELSE Len(s))

\* api.ts:489-604: the result computed from a well-formed body
BuildResult(p, body, id) ==
  LET listings == body.rows
      totalCount == IF body.count # 0 THEN body.count ELSE Len(listings)
      kept == SelectSeq(listings, KeepListing)
      nfts == [i \in 1..Len(kept) |-> MapListing(kept[i])]
      filteredNfts ==
        IF p.hideIncompleteMetadata
        THEN SelectSeq(nfts, LAMBDA n : n.hasCompleteMetadata) ELSE nfts
      startIndex == (p.page - 1) * p.pageSize
      paginatedNfts ==
        IF p.hideIncompleteMetadata
        THEN slice(filteredNfts, startIndex, startIndex + p.pageSize)
        ELSE filteredNfts
  IN [nfts |-> paginatedNfts,
      total |-> IF p.hideIncompleteMetadata THEN Len(filteredNfts)
                ELSE totalCount,
      src |-> id]

\* api.ts:472-487 and 614-617: what a call does with a decoded body.  A body
\* with errors, without data or without the listings field returns the
\* sentinel; a listings field that is not an array makes .filter throw, which
\* the catch turns into the sentinel; only the "rows" path reaches the store.
BodyStores(body) == body.kind = "rows"

\* variant: the clear-all branch deletes nothing
invalidateListingsCache_NoClear(cache, specificParams) ==
  IF specificParams # Undefined
  THEN LET key == JSONstringify(specificParams)
       IN [k \in DOMAIN cache \ {key} |-> cache[k]]
  ELSE cache

\* api.ts:625-640: specificParams is Undefined or a property list
invalidateListingsCache(cache, specificParams) ==
  IF specificParams # Undefined
  THEN LET key == JSONstringify(specificParams)
       IN IF key \in DOMAIN cache
          THEN [k \in DOMAIN cache \ {key} |-> cache[k]]
          ELSE cache
  ELSE [k \in {} |-> EmptyResult]

\* ------------------------------------------------------------------- state
VARIABLES
  now,            \* Date.now()
  listingsCache,  \* api.ts:23, a function from the cached keys to entries
  calls,          \* the fetchActiveListings calls started so far, by id
  dash,           \* the state of the Dashboard component (useState hooks)
  effectPending,  \* the load effect is scheduled (its dependencies changed)
  inputs,         \* number of user events handled so far
  probe           \* one application of a function of api.ts or
                  \* AptosClient.ts to an input: the input, then the output

vars == <<now, listingsCache, calls, dash, effectPending, inputs, probe>>

\* no function is being applied
NoProbe == [fn |-> "none", stage |-> "none"]

SortOrders == {"timestamp_desc", "price_asc"}
MarketplaceValues == {"", "topaz"}
CollectionValues == {"", "cats"}
Tabs == {"listings", "my-nfts"}

\* Dashboard.tsx:112-120: the argument of fetchActiveListings
LoadParams(d) ==
  [page |-> d.listingsPage, pageSize |-> pageSize,
   marketplace |-> OrUndefined(d.selectedMarketplace),
   collection |-> OrUndefined(d.searchCollection),
   sortOrder |-> d.sortOrder,
   hideIncompleteMetadata |-> d.hideIncompleteMetadata]

\* Dashboard.tsx:301-308: the argument of invalidateListingsCache
RefreshParams(d) ==
  << <<"page", JsonNumber(d.listingsPage)>>,
     <<"pageSize", JsonNumber(pageSize)>>,
     <<"marketplace", JsonString(OrUndefined(d.selectedMarketplace))>>,
     <<"collection", JsonString(OrUndefined(d.searchCollection))>>,
     <<"sortOrder", JsonString(d.sortOrder)>>,
     <<"hideIncompleteMetadata", JsonBoolean(d.hideIncompleteMetadata)>> >>

\* Dashboard.tsx:145: the dependency list of the load effect
LoadDeps(d) ==
  <<d.selectedMarketplace, d.searchCollection, d.listingsPage, d.activeTab,
    d.sortOrder, d.hideIncompleteMetadata, d.refreshing>>

\* Dashboard.tsx:464-504: what the listings pane renders
View(d) ==
  IF d.listingsLoading THEN "spinner"
  ELSE IF d.listingsError # Null THEN "alert"
  ELSE IF Len(d.listings) > 0 THEN "grid"
  ELSE "empty"

\* variant: the finally block leaves refreshing as it is
ApplySettled_KeepsRefreshing(d, settle, result) ==
  LET applied ==
        IF settle = "resolved"
        THEN [d EXCEPT !.listings = result.nfts,
                       !.listingsTotal = result.total,
                       !.listingsError =
                          IF Len(result.nfts) = 0 /\ result.total = 0
                          THEN MsgNoListings ELSE d.listingsError]
        ELSE [d EXCEPT !.listingsError = MsgFailed,
                       !.listings = <<>>,
                       !.listingsTotal = 0]
  IN [applied EXCEPT !.listingsLoading = FALSE]

\* Dashboard.tsx:122-138: the continuation of loadListings behind the await:
\* the try branch for a resolved promise, the catch branch for a rejected
\* one, then the finally block
ApplySettled(d, settle, result) ==
  LET applied ==
        IF settle = "resolved"
        THEN [d EXCEPT !.listings = result.nfts,
                       !.listingsTotal = result.total,
                       !.listingsError =
                          IF Len(result.nfts) = 0 /\ result.total = 0
                          THEN MsgNoListings ELSE d.listingsError]
        ELSE [d EXCEPT !.listingsError = MsgFailed,
                       !.listings = <<>>,
                       !.listingsTotal = 0]
  IN [applied EXCEPT !.listingsLoading = FALSE, !.refreshing = FALSE]

\* A call record: the parameters and locals of one call of an exported
\* function of api.ts and the await it is suspended at.  caller is the code
\* awaiting it, key the cache key (fetchActiveListings only), entryAge the
\* age of the cache entry found by the cache check (-1: none found), via
\* where the answer comes from ("cache", "network", or "none" for a return
\* before any request), caught whether the caller's catch branch ran.
NewCall(fn, caller, p, age) ==
  [fn |-> fn, caller |-> caller, params |-> p,
   key |-> IF fn = "fetchActiveListings" THEN cacheKey(p) ELSE Undefined,
   pc |-> "fetch", via |-> "network", entryAge |-> age,
   settle |-> "pending", value |-> NoResult, stored |-> FALSE,
   caught |-> FALSE]

InFlight == {i \in 1..Len(calls) : calls[i].pc # "settled"}

\* api.ts:347-350: now - cacheEntry.timestamp for the entry under key
EntryAge(cache, key, t) ==
  IF key \in DOMAIN cache THEN t - cache[key].timestamp ELSE -1

EmptyCache == [k \in {} |-> EmptyResult]

Init ==
  /\ inputs = 0
  /\ probe = NoProbe
  /\ now = 0
  /\ listingsCache = EmptyCache
  /\ calls = <<>>
  /\ effectPending = TRUE
  \* Dashboard.tsx:48-75: the filters come from the URL of the page
  /\ \E m \in MarketplaceValues, c \in CollectionValues :
       dash = [activeTab |-> "listings", selectedMarketplace |-> m,
               searchCollection |-> c, listingsPage |-> 1,
               sortOrder |-> "timestamp_desc",
               hideIncompleteMetadata |-> FALSE, refreshing |-> FALSE,
               listingsLoading |-> TRUE, listingsError |-> Null,
               listings |-> <<>>, listingsTotal |-> 0]

\* ----------------------------------------------------------------- actions
\* a user event is handled when no effect is waiting to run
UserEvent ==
  /\ ~effectPending
  /\ inputs < MaxInputs
  /\ inputs' = inputs + 1
  /\ UNCHANGED probe

\* A handler has set the component state to d: React renders, and schedules
\* the load effect when one of its dependencies changed.
Render(d) ==
  /\ dash' = d
  /\ effectPending' = (LoadDeps(d) # LoadDeps(dash))

\* variants: the store placed before the checks of the response, and a
\* transport failure that is not caught
SettleOnFailure_Stores(failure) ==
  [settle |-> "resolved", value |-> EmptyResult, store |-> TRUE]

SettleOnFailure_Rethrows(failure) ==
  IF failure = "transport"
  THEN [settle |-> "rejected", value |-> NoResult, store |-> FALSE]
  ELSE [settle |-> "resolved", value |-> EmptyResult, store |-> FALSE]

\* api.ts:472-487, 614-617: every failure after the cache check ends in
\* "return { nfts: [], total: 0 }", directly or through the catch, and
\* returns before the store at 606-611
SettleOnFailure(failure) ==
  [settle |-> "resolved", value |-> EmptyResult, store |-> FALSE]

\* variant: an entry already present is kept
StoreEntry_KeepFirst(cache, key, result, t) ==
  [k \in DOMAIN cache \cup {key} |->
     IF k = key /\ k \notin DOMAIN cache
     THEN [timestamp |-> t, data |-> result, params |-> key]
     ELSE cache[k]]

\* api.ts:606-611
StoreEntry(cache, key, result, t) ==
  [k \in DOMAIN cache \cup {key} |->
     IF k = key THEN [timestamp |-> t, data |-> result, params |-> key]
     ELSE cache[k]]

\* variant: the result of a load whose parameters are no longer current is
\* dropped
Continue_DropsSuperseded(c, settle, value) ==
  IF c.caller = "Dashboard" /\ c.key = cacheKey(LoadParams(dash))
  THEN Render(ApplySettled(dash, settle, value))
  ELSE UNCHANGED <<dash, effectPending>>

\* The promise of call c settles and the code awaiting it continues: for the
\* Dashboard the continuation of loadListings (Dashboard.tsx:122-138).
Continue(c, settle, value) ==
  IF c.caller = "Dashboard"
  THEN Render(ApplySettled(dash, settle, value))
  ELSE UNCHANGED <<dash, effectPending>>

\* call id returns
Return(id, settle, value, stored) ==
  /\ calls' = [calls EXCEPT ![id] =
                 [@ EXCEPT !.pc = "settled", !.settle = settle,
                           !.value = value, !.stored = stored,
                           !.caught = (settle = "rejected")]]
  /\ Continue(calls[id], settle, value)

\* Dashboard.tsx:107-145: the load effect.  loadListings runs up to the await
\* of fetchActiveListings, which runs its cache check (api.ts:341-356); on a
\* hit the promise is already resolved and the continuation follows at once,
\* on a miss the request is sent (api.ts:464) and the call is in flight.
RunEffect ==
  /\ effectPending
  /\ UNCHANGED <<inputs, probe>>
  /\ IF dash.activeTab # "listings"
     THEN /\ effectPending' = FALSE
          /\ UNCHANGED <<now, listingsCache, calls, dash>>
     ELSE LET p == LoadParams(dash)
              key == cacheKey(p)
              age == EntryAge(listingsCache, key, now)
              call == NewCall("fetchActiveListings", "Dashboard", p, age)
              started == [dash EXCEPT !.listingsLoading = TRUE,
                                      !.listingsError = Null]
          IN /\ Len(calls) < MaxCalls
             /\ IF CacheValid(listingsCache, key, FALSE, now)
                THEN LET result == listingsCache[key].data
                         done == ApplySettled(started, "resolved", result)
                     IN /\ calls' = Append(calls,
                                 [call EXCEPT !.pc = "settled",
                                              !.via = "cache",
                                              !.settle = "resolved",
                                              !.value = result])
                        /\ dash' = done
                        /\ effectPending' = (LoadDeps(done) # LoadDeps(dash))
                ELSE /\ calls' = Append(calls, call)
                     /\ dash' = started
                     /\ effectPending' = FALSE
             /\ UNCHANGED <<now, listingsCache>>

\* api.ts:464-475 and 1361-1369: the fetch of call id settles: the transport
\* throws (fetchWithRetry rethrows, the catch at 614 returns the sentinel),
\* or the status is not ok, or the response is ok and its body is read next
FetchSettles(id, outcome) ==
  /\ ~effectPending
  /\ UNCHANGED <<inputs, probe>>
  /\ id \in InFlight
  /\ calls[id].fn = "fetchActiveListings"
  /\ calls[id].pc = "fetch"
  /\ IF outcome = "ok"
     THEN /\ calls' = [calls EXCEPT ![id].pc = "json"]
          /\ UNCHANGED <<dash, effectPending, listingsCache>>
     ELSE LET r == SettleOnFailure(IF outcome = "throw" THEN "transport"
                                   ELSE "status")
          IN /\ listingsCache' =
                  IF r.store
                  THEN StoreEntry(listingsCache, calls[id].key, r.value, now)
                  ELSE listingsCache
             /\ Return(id, r.settle, r.value, r.store)
  /\ UNCHANGED now

\* api.ts:477-617: response.json() settles.  It throws on an undecodable
\* body; else the decoded body is checked for errors and for its shape, the
\* listings are mapped (the images of the modelled rows need no further
\* request, so Promise.all settles in the same task), the result is built,
\* stored under the key of the call with the current time, and returned.
JsonSettles(id, decodes, body) ==
  /\ ~effectPending
  /\ UNCHANGED <<inputs, probe>>
  /\ id \in InFlight
  /\ calls[id].fn = "fetchActiveListings"
  /\ calls[id].pc = "json"
  /\ IF decodes /\ BodyStores(body)
     THEN LET result == BuildResult(calls[id].params, body, id)
          IN /\ listingsCache' =
                  StoreEntry(listingsCache, calls[id].key, result, now)
             /\ Return(id, "resolved", result, TRUE)
     ELSE LET r == SettleOnFailure(IF ~decodes THEN "parse"
                                   ELSE IF body.kind = "errors" THEN "errors"
                                   ELSE "shape")
          IN /\ listingsCache' =
                  IF r.store
                  THEN StoreEntry(listingsCache, calls[id].key, r.value, now)
                  ELSE listingsCache
             /\ Return(id, r.settle, r.value, r.store)
  /\ UNCHANGED now

\* Dashboard.tsx:258-264
handleMarketplaceChange(value) ==
  /\ UserEvent
  /\ Render([dash EXCEPT !.selectedMarketplace = value, !.listingsPage = 1])
  /\ UNCHANGED <<now, listingsCache, calls>>

\* Dashboard.tsx:266-270
handleSearch(value) ==
  /\ UserEvent
  /\ Render([dash EXCEPT !.searchCollection = value, !.listingsPage = 1])
  /\ UNCHANGED <<now, listingsCache, calls>>

\* Dashboard.tsx:272-278 (the page of the my-nfts tab is not modelled)
handlePageChange(page) ==
  /\ UserEvent
  /\ Render(IF dash.activeTab = "my-nfts"
            THEN dash
            ELSE [dash EXCEPT !.listingsPage = page])
  /\ UNCHANGED <<now, listingsCache, calls>>

\* Dashboard.tsx:280-282
handleTabChange(key) ==
  /\ UserEvent
  /\ Render([dash EXCEPT !.activeTab = key])
  /\ UNCHANGED <<now, listingsCache, calls>>

\* variant: the sort order changes and the page is kept
handleSortChange_KeepsPage(value) ==
  /\ UserEvent
  /\ Render([dash EXCEPT !.sortOrder = value])
  /\ UNCHANGED <<now, listingsCache, calls>>

\* Dashboard.tsx:285-289
handleSortChange(value) ==
  /\ UserEvent
  /\ Render([dash EXCEPT !.sortOrder = value, !.listingsPage = 1])
  /\ UNCHANGED <<now, listingsCache, calls>>

\* Dashboard.tsx:292-295
handleIncompleteMetadataToggle(checked) ==
  /\ UserEvent
  /\ Render([dash EXCEPT !.hideIncompleteMetadata = checked,
                         !.listingsPage = 1])
  /\ UNCHANGED <<now, listingsCache, calls>>

\* Dashboard.tsx:298-315 (on the my-nfts tab setCurrentPage(currentPage)
\* stores the value the state already has)
handleRefresh ==
  /\ UserEvent
  /\ IF dash.activeTab = "listings"
     THEN /\ listingsCache' =
               invalidateListingsCache(listingsCache, RefreshParams(dash))
          /\ Render([dash EXCEPT !.refreshing = TRUE])
     ELSE /\ Render(dash)
          /\ UNCHANGED listingsCache
  /\ UNCHANGED <<now, calls>>

\* api.ts:625-640 called without an argument (the exported function; no
\* component of the repository calls it this way)
InvalidateAll ==
  /\ UserEvent
  /\ listingsCache # EmptyCache
  /\ listingsCache' = invalidateListingsCache(listingsCache, Undefined)
  /\ UNCHANGED <<now, calls, dash, effectPending>>

\* time passes
Tick ==
  /\ ~effectPending
  /\ UNCHANGED <<inputs, probe>>
  /\ now < MaxTicks * TickMs
  /\ now' = now + TickMs
  /\ UNCHANGED <<listingsCache, calls, dash, effectPending>>

Next ==
  \/ RunEffect
  \/ \E id \in 1..MaxCalls, o \in {"ok", "not_ok", "throw"} : FetchSettles(id, o)
  \/ \E id \in 1..MaxCalls, dec \in BOOLEAN, b \in Bodies : JsonSettles(id, dec, b)
  \/ \E v \in MarketplaceValues : handleMarketplaceChange(v)
  \/ \E v \in CollectionValues : handleSearch(v)
  \/ \E pg \in 1..MaxPage : handlePageChange(pg)
  \/ \E k \in Tabs : handleTabChange(k)
  \/ \E v \in SortOrders : handleSortChange(v)
  \/ \E c \in BOOLEAN : handleIncompleteMetadataToggle(c)
  \/ handleRefresh
  \/ InvalidateAll
  \/ Tick

Spec == Init /\ [][Next]_vars

TypeOK ==
  /\ now \in 0..(MaxTicks * TickMs)
  /\ Len(calls) <= MaxCalls
  /\ effectPending \in BOOLEAN
  /\ dash.activeTab \in Tabs
  /\ inputs \in 0..MaxInputs

\* ------------------------------------ api.ts: the exported functions, direct
\* The functions called directly by a caller that awaits them inside
\* try/catch (loadWalletNFTs of Dashboard.tsx:149-176 for fetchNFTs, fetchData
\* of CollectionRankings for fetchCollectionsBy*), without the Dashboard's
\* listings tab.
\* number of direct calls in one run
MaxApiCalls == 2

Addresses == {"", "all", "0x1"}
CollectionFns ==
  {"fetchCollectionsByVolume", "fetchCollectionsBySales",
   "fetchCollectionsByFloorPrice"}

\* api.ts:325-339: the parameters of fetchActiveListings({page, ...}) after
\* the defaults of the destructuring
ListingDefaults(page) ==
  [page |-> page, pageSize |-> 10, collection |-> Undefined,
   marketplace |-> Undefined, sortOrder |-> "timestamp_desc",
   hideIncompleteMetadata |-> FALSE]

\* One row of current_token_ownerships_v2; "" stands for an absent field
OwnApe ==
  [token_data_id |-> "0xa", token_name |-> "Ape",
   cdn_image_uri |-> "https://cdn/ape.png",
   last_transaction_timestamp |-> "2024-01-01T00:00:00"]
OwnUndated ==
  [token_data_id |-> "0xb", token_name |-> "Bee", cdn_image_uri |-> "",
   last_transaction_timestamp |-> ""]

\* the bodies the indexer answers an ownership query with; kind "rows" is
\* {data: {current_token_ownerships_v2: rows}}
OwnershipBodies ==
  { BodyRows(<<>>, 0), BodyRows(<<OwnApe>>, 0),
    BodyRows(<<OwnApe, OwnUndated>>, 0), BodyErrors, BodyNoData, BodyNotArray }

\* new Date(x).toISOString() throws a RangeError for an invalid date: for an
\* absent value and for a text that is not a date
ParseableDates == {"2024-01-01T00:00:00"}
ValidDate(x) == x \in ParseableDates

\* api.ts:748-771
MapOwnership(ownership, address) ==
  [id |-> ownership.token_data_id,
   name |-> IF ownership.token_name # "" THEN ownership.token_name
            ELSE "Unnamed NFT",
   image_url |-> IF ownership.cdn_image_uri # "" THEN ownership.cdn_image_uri
                 ELSE "https://via.placeholder.com/500x500?text="
                      \o encodeURIComponent(IF ownership.token_name # ""
                                            THEN ownership.token_name
                                            ELSE "NFT"),
   marketplace |-> "Aptos",
   owner_address |-> address]

\* api.ts:727-800: whether the body of an ownership query reaches the final
\* return: it has no errors, has the ownership array, and every row maps
\* without throwing
OwnershipsMap(body) ==
  /\ body.kind = "rows"
  /\ \A i \in 1..Len(body.rows) :
       ValidDate(body.rows[i].last_transaction_timestamp)

Max(a, b) == IF a >= b THEN a ELSE b

\* api.ts:744-795
BuildNFTs(p, body, id) ==
  LET ownerships == body.rows
      total == Len(ownerships)
      nfts == [i \in 1..total |-> MapOwnership(ownerships[i], p.address)]
      filteredNfts ==
        IF p.marketplace # Undefined
        THEN SelectSeq(nfts, LAMBDA n : toLowerCase(n.marketplace)
                                          = toLowerCase(p.marketplace))
        ELSE nfts
  IN [nfts |-> filteredNfts, total |-> Max(20, total * 2), src |-> id]

\* One element of data.data of the analytics API: amounts in octas; 0 stands
\* for an absent amount
ColCats == [collection_id |-> "cats", total_volume_apt |-> 300000000,
            floor_price_apt |-> 100000000]
ColDogs == [collection_id |-> "dogs", total_volume_apt |-> 0,
            floor_price_apt |-> 200000000]

\* the bodies the analytics API answers with: an array under data, no array
\* under data, the JSON value null, an array with a null element
CollectionBodies ==
  { BodyRows(<<>>, 0), BodyRows(<<ColCats, ColDogs>>, 0), BodyNoData,
    [kind |-> "null", rows |-> <<>>, count |-> 0],
    [kind |-> "null_element", rows |-> <<>>, count |-> 0] }

\* api.ts:1626-1634, for amounts that are whole multiples of one APT
formatAPTAmount(octas) == IF octas = 0 THEN 0 ELSE octas \div 100000000

\* api.ts:1407-1414, 1459-1463, 1509-1515; -1 stands for undefined
MapCollection(fn, collection) ==
  IF fn = "fetchCollectionsByFloorPrice"
  THEN [collection EXCEPT
          !.floor_price_apt = formatAPTAmount(collection.floor_price_apt),
          !.total_volume_apt =
             IF collection.total_volume_apt # 0
             THEN formatAPTAmount(collection.total_volume_apt) ELSE -1]
  ELSE [collection EXCEPT
          !.total_volume_apt = formatAPTAmount(collection.total_volume_apt)]

\* api.ts:1397-1400, 1416-1420 (and the same lines of the two other
\* functions): a status that is not ok and a body without an array return
\* [], anything thrown is caught and returns []
CollectionsOnFailure(failure) ==
  [settle |-> "resolved", value |-> <<>>]

\* api.ts:341-356, 464: fetchActiveListings up to its first pending await:
\* answered from the cache, or the request sent
StartListingsCall(caller, p, skipCache) ==
  LET key == cacheKey(p)
      call == NewCall("fetchActiveListings", caller, p,
                      EntryAge(listingsCache, key, now))
  IN IF CacheValid(listingsCache, key, skipCache, now)
     THEN calls' = Append(calls, [call EXCEPT !.pc = "settled",
                                              !.via = "cache",
                                              !.settle = "resolved",
                                              !.value = listingsCache[key].data])
     ELSE calls' = Append(calls, call)

\* api.ts:320-356: a direct call fetchActiveListings({page, skipCache})
fetchActiveListings(page, skipCache) ==
  /\ Len(calls) < MaxApiCalls
  /\ StartListingsCall("caller", ListingDefaults(page), skipCache)
  /\ UNCHANGED <<now, listingsCache, dash, effectPending, inputs,
               probe>>

\* api.ts:646-740: a direct call fetchNFTs({address, marketplace}).  Without
\* an address the sentinel is returned before the try; for 'all' the promise
\* of fetchActiveListings({page, pageSize}) is returned, so the call settles
\* as that call does; else the ownership query is sent.
fetchNFTs(address, marketplace) ==
  /\ Len(calls) < MaxApiCalls
  /\ LET p == [address |-> address, page |-> 1, pageSize |-> 10,
               marketplace |-> OrUndefined(marketplace)]
         call == NewCall("fetchNFTs", "caller", p, -1)
     IN IF address = ""
        THEN calls' = Append(calls, [call EXCEPT !.pc = "settled",
                                                 !.via = "none",
                                                 !.settle = "resolved",
                                                 !.value = EmptyResult])
        ELSE IF address = "all"
        THEN StartListingsCall("fetchNFTs", ListingDefaults(p.page), FALSE)
        ELSE calls' = Append(calls, call)
  /\ UNCHANGED <<now, listingsCache, dash, effectPending, inputs,
               probe>>

\* api.ts:1375-1395, 1427-1447, 1477-1497: a direct call of one of the
\* fetchCollectionsBy* functions with the default parameters
fetchCollections(fn) ==
  /\ Len(calls) < MaxApiCalls
  /\ calls' = Append(calls,
                NewCall(fn, "caller",
                        [limit |-> 10, offset |-> 0, timePeriod |-> "24h"],
                        -1))
  /\ UNCHANGED <<now, listingsCache, dash, effectPending, inputs,
               probe>>

\* api.ts:727-738: the fetch of the ownership query settles
NFTsFetchSettles(id, outcome) ==
  /\ id \in InFlight
  /\ calls[id].fn = "fetchNFTs"
  /\ calls[id].pc = "fetch"
  /\ IF outcome = "ok"
     THEN /\ calls' = [calls EXCEPT ![id].pc = "json"]
          /\ UNCHANGED <<dash, effectPending>>
     ELSE LET r == SettleOnFailure(IF outcome = "throw" THEN "transport"
                                   ELSE "status")
          IN Return(id, r.settle, r.value, FALSE)
  /\ UNCHANGED <<now, listingsCache, inputs, probe>>

\* api.ts:740-800: response.json() of the ownership query settles
NFTsJsonSettles(id, decodes, body) ==
  /\ id \in InFlight
  /\ calls[id].fn = "fetchNFTs"
  /\ calls[id].pc = "json"
  /\ IF decodes /\ OwnershipsMap(body)
     THEN Return(id, "resolved", BuildNFTs(calls[id].params, body, id), FALSE)
     ELSE LET r == SettleOnFailure(IF ~decodes THEN "parse"
                                   ELSE IF body.kind = "errors" THEN "errors"
                                   ELSE "shape")
          IN Return(id, r.settle, r.value, FALSE)
  /\ UNCHANGED <<now, listingsCache, inputs, probe>>

\* api.ts:1395-1400 (1447-1452, 1497-1502): the fetch of a collections
\* request settles
CollectionsFetchSettles(id, outcome) ==
  /\ id \in InFlight
  /\ calls[id].fn \in CollectionFns
  /\ calls[id].pc = "fetch"
  /\ IF outcome = "ok"
     THEN /\ calls' = [calls EXCEPT ![id].pc = "json"]
          /\ UNCHANGED <<dash, effectPending>>
     ELSE LET r == CollectionsOnFailure(IF outcome = "throw" THEN "transport"
                                        ELSE "status")
          IN Return(id, r.settle, r.value, FALSE)
  /\ UNCHANGED <<now, listingsCache, inputs, probe>>

\* api.ts:1402-1420 (1454-1470, 1504-1522): response.json() of a
\* collections request settles
CollectionsJsonSettles(id, decodes, body) ==
  /\ id \in InFlight
  /\ calls[id].fn \in CollectionFns
  /\ calls[id].pc = "json"
  /\ IF decodes /\ body.kind = "rows"
     THEN Return(id, "resolved",
                 [i \in 1..Len(body.rows) |->
                    MapCollection(calls[id].fn, body.rows[i])],
                 FALSE)
     ELSE LET r == CollectionsOnFailure(IF ~decodes THEN "parse" ELSE "shape")
          IN Return(id, r.settle, r.value, FALSE)
  /\ UNCHANGED <<now, listingsCache, inputs, probe>>

InitApi ==
  /\ inputs = 0
  /\ probe = NoProbe
  /\ now = 0
  /\ listingsCache = EmptyCache
  /\ calls = <<>>
  /\ effectPending = FALSE
  \* no listings tab: the Dashboard state plays no part
  /\ dash = [activeTab |-> "my-nfts", selectedMarketplace |-> "",
             searchCollection |-> "", listingsPage |-> 1,
             sortOrder |-> "timestamp_desc",
             hideIncompleteMetadata |-> FALSE, refreshing |-> FALSE,
             listingsLoading |-> TRUE, listingsError |-> Null,
             listings |-> <<>>, listingsTotal |-> 0]

NextApi ==
  \/ \E pg \in 1..MaxPage, skip \in BOOLEAN : fetchActiveListings(pg, skip)
  \/ \E a \in Addresses, m \in MarketplaceValues : fetchNFTs(a, m)
  \/ \E fn \in CollectionFns : fetchCollections(fn)
  \/ \E id \in 1..MaxApiCalls, o \in {"ok", "not_ok", "throw"} :
       FetchSettles(id, o)
  \/ \E id \in 1..MaxApiCalls, dec \in BOOLEAN, b \in Bodies :
       JsonSettles(id, dec, b)
  \/ \E id \in 1..MaxApiCalls, o \in {"ok", "not_ok", "throw"} :
       NFTsFetchSettles(id, o)
  \/ \E id \in 1..MaxApiCalls, dec \in BOOLEAN, b \in OwnershipBodies :
       NFTsJsonSettles(id, dec, b)
  \/ \E id \in 1..MaxApiCalls, o \in {"ok", "not_ok", "throw"} :
       CollectionsFetchSettles(id, o)
  \/ \E id \in 1..MaxApiCalls, dec \in BOOLEAN, b \in CollectionBodies :
       CollectionsJsonSettles(id, dec, b)
  \/ Tick

SpecApi == InitApi /\ [][NextApi]_vars

\* ---------------------------------------------------------------- properties
\* the call started by the step, when the step starts one
StartsCall == Len(calls') = Len(calls) + 1
NewestCall == calls'[Len(calls')]
\* call i returns in the step
Returns(i) == calls[i].pc # "settled" /\ calls'[i].pc = "settled"

\* C1, as stated: a call that finds an entry for its key no more than the
\* expiration window old (skipCache false, no Refresh and so no invalidation
\* before the call) returns the stored payload and sends no request.
C1_HitWithinWindowInclusive ==
  [][(StartsCall /\ ~dash.refreshing) =>
       LET c == NewestCall
       IN (c.entryAge >= 0 /\ c.entryAge <= CACHE_EXPIRATION)
            => /\ c.via = "cache"
               /\ c.pc = "settled"
               /\ c.value = listingsCache[c.key].data
               /\ InFlight' = InFlight]_vars

\* C1, amended: a call that finds an entry for its key less than the
\* expiration window old returns exactly the stored payload, which the
\* Dashboard then shows, and sends no request.
C1_HitWithinWindow ==
  [][StartsCall =>
       LET c == NewestCall
       IN (c.entryAge >= 0 /\ c.entryAge < CACHE_EXPIRATION)
            => /\ c.via = "cache"
               /\ c.pc = "settled"
               /\ c.settle = "resolved"
               /\ c.value = listingsCache[c.key].data
               /\ InFlight' = InFlight
               /\ listingsCache' = listingsCache
               /\ c.caller = "Dashboard" => dash'.listings = c.value.nfts]_vars

\* a call was answered from an entry that had aged, and the entry is still
\* the one it returned
C1_Witness ==
  \E i \in 1..Len(calls) :
    /\ calls[i].via = "cache"
    /\ calls[i].entryAge > 0
    /\ calls[i].key \in DOMAIN listingsCache
    /\ listingsCache[calls[i].key].data = calls[i].value
    /\ calls[i].value.src \notin {0, i}

\* C2: the Refresh action on the listings tab removes the cache entry of the
\* current parameters, for every combination of the filters, so that the load
\* it triggers finds no entry.
C2_RefreshRemovesEntry ==
  [][(dash.activeTab = "listings" /\ ~dash.refreshing /\ dash'.refreshing)
       => cacheKey(LoadParams(dash')) \notin DOMAIN listingsCache']_vars

\* C3: after invalidateListingsCache() without argument every key cached
\* before is a miss, whatever calls populated the cache.
C3_InvalidateAllClears ==
  [][InvalidateAll =>
       /\ \A k \in DOMAIN listingsCache :
            ~CacheValid(listingsCache', k, FALSE, now')
       /\ DOMAIN listingsCache' = {}]_vars

\* entries under two different keys had been stored and the cache is empty
C3_Witness ==
  /\ listingsCache = EmptyCache
  /\ \E i, j \in 1..Len(calls) :
       /\ calls[i].stored /\ calls[j].stored
       /\ calls[i].key # calls[j].key

\* C4: a call that finds an entry whose age is the expiration window or more
\* goes to the network, and what it returns is its own result or the
\* sentinel, never the payload of the expired entry.
C4_ExpiredEntryNotReused ==
  \A i \in 1..Len(calls) :
    calls[i].entryAge >= CACHE_EXPIRATION
      => /\ calls[i].via = "network"
         /\ calls[i].pc = "settled" => calls[i].value.src \in {0, i}

\* a call found an expired entry, its request failed, it returned the sentinel
C4_Witness ==
  \E i \in 1..Len(calls) :
    /\ calls[i].entryAge >= CACHE_EXPIRATION
    /\ calls[i].pc = "settled"
    /\ calls[i].value = EmptyResult
    /\ calls[i].key \in DOMAIN listingsCache

\* C5: every entry under key K is the result of a call whose parameters
\* serialize to K and whose upstream fetch succeeded; a call that ends in a
\* failure leaves the cache as it was.
C5_EntryFromSuccessfulFetch ==
  \A k \in DOMAIN listingsCache :
    /\ listingsCache[k].params = k
    /\ \E i \in 1..Len(calls) :
         /\ JSONstringify(cacheParams(calls[i].params)) = k
         /\ calls[i].via = "network"
         /\ calls[i].settle = "resolved"
         /\ calls[i].stored
         /\ calls[i].value.src = i
         /\ listingsCache[k].data = calls[i].value

C5_FailureLeavesCache ==
  [][\A i \in 1..Len(calls) :
       (Returns(i) /\ calls'[i].value.src # i)
         => listingsCache' = listingsCache]_vars

C5_CacheHoldsOnlySuccessfulFetches ==
  []C5_EntryFromSuccessfulFetch /\ C5_FailureLeavesCache

\* a call failed after an earlier call with the same key had stored its
\* result, and the entry is still that result
C5_Witness ==
  \E i, j \in 1..Len(calls) :
    /\ j < i
    /\ calls[j].key = calls[i].key
    /\ calls[j].stored
    /\ calls[i].pc = "settled" /\ calls[i].via = "network"
    /\ calls[i].value = EmptyResult
    /\ calls[i].key \in DOMAIN listingsCache
    /\ listingsCache[calls[i].key].data = calls[j].value

\* the store of a successful call overwrites the entry of its key with its
\* own payload and the time of the write
LastWriteWins ==
  [][\A i \in 1..Len(calls) :
       (Returns(i) /\ calls'[i].stored)
         => listingsCache'[calls[i].key] =
              [timestamp |-> now, data |-> calls'[i].value,
               params |-> calls[i].key]]_vars

\* C6, as stated: a call that starts while another call with the same key
\* is in flight (neither has stored) misses the cache and sends a request;
\* the entry is that of the last write.
C6_ConcurrentCallsBothMiss ==
  /\ [][StartsCall =>
          ((\E i \in InFlight : calls[i].key = NewestCall.key)
             => NewestCall.via = "network")]_vars
  /\ LastWriteWins

\* C6, amended: a call that starts while another call with the same key is
\* in flight, and finds no entry younger than the expiration window (none
\* stored by a third call), misses the cache and sends a request; the entry
\* is that of the last write.
C6_ConcurrentCallsBothMissUnlessStored ==
  /\ [][StartsCall =>
          (( /\ \E i \in InFlight : calls[i].key = NewestCall.key
             /\ \/ NewestCall.entryAge < 0
                \/ NewestCall.entryAge >= CACHE_EXPIRATION)
             => /\ NewestCall.via = "network"
                /\ NewestCall.pc = "fetch"
                /\ InFlight' = InFlight \cup {Len(calls')})]_vars
  /\ LastWriteWins

\* two calls with the same key both went to the network and both stored; the
\* one that started first wrote last, and the entry is its payload
C6_Witness ==
  \E i, j \in 1..Len(calls) :
    /\ i < j
    /\ calls[i].key = calls[j].key
    /\ calls[i].via = "network" /\ calls[j].via = "network"
    /\ calls[i].stored /\ calls[j].stored
    /\ calls[i].key \in DOMAIN listingsCache
    /\ listingsCache[calls[i].key].data = calls[i].value

\* C7: a load whose parameters are no longer the current ones still applies
\* its result when it resolves.
C7_SupersededLoadApplies ==
  [][\A i \in 1..Len(calls) :
       (/\ Returns(i)
        /\ calls[i].caller = "Dashboard"
        /\ calls[i].key # cacheKey(LoadParams(dash)))
         => /\ dash'.listings = calls'[i].value.nfts
            /\ dash'.listingsTotal = calls'[i].value.total]_vars

\* every load has settled, and the listings and total shown are those of a
\* superseded load, not those the load with the current parameters returned
C7_Witness ==
  /\ InFlight = {}
  /\ ~effectPending
  /\ Len(calls) >= 2
  /\ LET n == Len(calls)
     IN /\ calls[n].key = cacheKey(LoadParams(dash))
        /\ calls[n].stored
        /\ \E i \in 1..(n - 1) :
             /\ calls[i].key # calls[n].key
             /\ calls[i].stored
             /\ dash.listings = calls[i].value.nfts
             /\ dash.listingsTotal = calls[i].value.total
             /\ dash.listingsTotal # calls[n].value.total

\* C8: while a listings load of the Dashboard is in flight, listingsLoading
\* is true and the spinner is shown, whatever other loads start or finish.
C8_SpinnerWhileInFlight ==
  (\E i \in InFlight : calls[i].caller = "Dashboard")
    => /\ dash.listingsLoading
       /\ View(dash) = "spinner"

\* C9: a load that succeeded with an empty result shows the empty-state
\* panel and no alert; the alert is shown only for a load that failed.
C9_EmptyResultShowsEmptyPanel ==
  [][\A i \in 1..Len(calls) :
       (Returns(i) /\ calls[i].caller = "Dashboard" /\ calls'[i].stored)
         => /\ (Len(calls'[i].value.nfts) = 0 /\ calls'[i].value.total = 0)
                 => View(dash') = "empty"
            /\ View(dash') # "alert"]_vars

\* call i fails in the step: its request throws or has a status that is not
\* ok, or its body does not decode, carries errors or has the wrong shape
FailsInStep(i) ==
  \/ \E o \in {"not_ok", "throw"} :
       \/ FetchSettles(i, o)
       \/ NFTsFetchSettles(i, o)
       \/ CollectionsFetchSettles(i, o)
  \/ \E dec \in BOOLEAN :
       \/ \E b \in Bodies : ~(dec /\ BodyStores(b)) /\ JsonSettles(i, dec, b)
       \/ \E b \in OwnershipBodies :
            ~(dec /\ OwnershipsMap(b)) /\ NFTsJsonSettles(i, dec, b)
       \/ \E b \in CollectionBodies :
            ~(dec /\ b.kind = "rows") /\ CollectionsJsonSettles(i, dec, b)

C10_NoCallRejected ==
  \A i \in 1..Len(calls) :
    /\ calls[i].settle # "rejected"
    /\ ~calls[i].caught

C10_FailureResolvesToSentinel ==
  [][\A i \in 1..Len(calls) :
       FailsInStep(i)
         => /\ calls'[i].settle = "resolved"
            /\ calls'[i].value = IF calls[i].fn \in CollectionFns THEN <<>>
                                 ELSE EmptyResult]_vars

\* C10: fetchActiveListings, fetchNFTs and the fetchCollectionsBy* functions
\* never reject: a transport failure, a status that is not ok, GraphQL errors
\* and a malformed body resolve to the sentinel, and no caller's catch branch
\* is taken.
C10_NeverRejects ==
  []C10_NoCallRejected /\ C10_FailureResolvesToSentinel

\* a listings call and an ownership call both went to the network, failed,
\* and resolved to the sentinel
C10_Witness ==
  \E i, j \in 1..Len(calls) :
    /\ calls[i].fn = "fetchActiveListings" /\ calls[j].fn = "fetchNFTs"
    /\ calls[i].via = "network" /\ calls[j].via = "network"
    /\ calls[i].settle = "resolved" /\ calls[j].settle = "resolved"
    /\ calls[i].value = EmptyResult /\ calls[j].value = EmptyResult

\* ============================================================ pure functions
\* The functions below are applied to one input at a time: probe holds the
\* input (stage "input"), the action of the function replaces it by the
\* output (stage "output").

\* String.prototype.startsWith, endsWith
startsWith(s, prefix) ==
  Len(s) >= Len(prefix) /\ SubSeq(s, 1, Len(prefix)) = prefix
endsWith(s, suffix) ==
  Len(s) >= Len(suffix)
    /\ SubSeq(s, Len(s) - Len(suffix) + 1, Len(s)) = suffix

\* api.ts:81-92
convertIpfsUrl(url) ==
  IF url = "" THEN url
  ELSE IF startsWith(url, "ipfs://")
  THEN "https://ipfs.io/ipfs/" \o SubSeq(url, Len("ipfs://") + 1, Len(url))
  ELSE url

\* api.ts:126-127, 160-161: the extensions taken for an image
IsImageName(uri) ==
  \E ext \in {".jpg", ".jpeg", ".png", ".gif", ".webp", ".svg"} :
    endsWith(uri, ext)

\* cdn_asset_uris of a token: absent stands for a null or missing object,
\* "" for a null or missing field
Uris(ci, ri, ca, ra, au, cj) ==
  [absent |-> FALSE, cdn_image_uri |-> ci, raw_image_uri |-> ri,
   cdn_animation_uri |-> ca, raw_animation_uri |-> ra, asset_uri |-> au,
   cdn_json_uri |-> cj]
NoUris == [Uris("", "", "", "", "", "") EXCEPT !.absent = TRUE]

\* A JSON metadata document: the five fields getBestImageUrl looks at
Doc(image, image_url, animation_url) ==
  [image |-> image, image_url |-> image_url, imageUrl |-> "",
   animation_url |-> animation_url, animationUrl |-> ""]

\* What a GET of a metadata URL does: fetch throws, the status is not ok,
\* the body is not JSON, or the body is a document
Throws == [kind |-> "throw", doc |-> Doc("", "", "")]
NotOk == [kind |-> "not_ok", doc |-> Doc("", "", "")]
NotJson == [kind |-> "not_json", doc |-> Doc("", "", "")]
Answers(doc) == [kind |-> "doc", doc |-> doc]

\* api.ts:180-201 (218-239, 257-278): the URL found in a metadata document,
\* "" when it has none of the five fields
ImageOfDoc(metadata) ==
  IF metadata.image # "" THEN convertIpfsUrl(metadata.image)
  ELSE IF metadata.image_url # "" THEN convertIpfsUrl(metadata.image_url)
  ELSE IF metadata.imageUrl # "" THEN convertIpfsUrl(metadata.imageUrl)
  ELSE IF metadata.animation_url # ""
  THEN convertIpfsUrl(metadata.animation_url)
  ELSE IF metadata.animationUrl # ""
  THEN convertIpfsUrl(metadata.animationUrl)
  ELSE ""

\* api.ts:170-205 (211-244, 249-283): one try block: the document at url is
\* fetched and searched; whatever fails falls out of the block with no URL
FromJson(url, web) ==
  IF web[url].kind = "doc" THEN ImageOfDoc(web[url].doc) ELSE ""

\* variant: the asset URI is tried before the animation URIs
getBestImageUrl_AssetFirst(cdnAssetUris, token_uri, web) ==
  IF cdnAssetUris.absent THEN [url |-> "", fetched |-> <<>>]
  ELSE IF cdnAssetUris.cdn_image_uri # ""
  THEN [url |-> cdnAssetUris.cdn_image_uri, fetched |-> <<>>]
  ELSE IF cdnAssetUris.raw_image_uri # ""
  THEN [url |-> convertIpfsUrl(cdnAssetUris.raw_image_uri), fetched |-> <<>>]
  ELSE IF cdnAssetUris.asset_uri # ""
  THEN [url |-> convertIpfsUrl(cdnAssetUris.asset_uri), fetched |-> <<>>]
  ELSE IF cdnAssetUris.cdn_animation_uri # ""
  THEN [url |-> cdnAssetUris.cdn_animation_uri, fetched |-> <<>>]
  ELSE [url |-> convertIpfsUrl(cdnAssetUris.raw_animation_uri),
        fetched |-> <<>>]

\* api.ts:98-295.  web is what a GET of each metadata URL does; the result is
\* the URL returned ("" for none) and the URLs fetched, in order.
getBestImageUrl(cdnAssetUris, token_uri, web) ==
  IF cdnAssetUris.absent THEN [url |-> "", fetched |-> <<>>]
  ELSE IF cdnAssetUris.cdn_image_uri # ""
  THEN [url |-> cdnAssetUris.cdn_image_uri, fetched |-> <<>>]
  ELSE IF cdnAssetUris.raw_image_uri # ""
  THEN [url |-> convertIpfsUrl(cdnAssetUris.raw_image_uri), fetched |-> <<>>]
  ELSE IF cdnAssetUris.cdn_animation_uri # ""
  THEN [url |-> cdnAssetUris.cdn_animation_uri, fetched |-> <<>>]
  ELSE IF cdnAssetUris.raw_animation_uri # ""
  THEN [url |-> convertIpfsUrl(cdnAssetUris.raw_animation_uri),
        fetched |-> <<>>]
  ELSE IF cdnAssetUris.asset_uri # ""
          /\ IsImageName(toLowerCase(cdnAssetUris.asset_uri))
  THEN [url |-> convertIpfsUrl(cdnAssetUris.asset_uri), fetched |-> <<>>]
  ELSE
    LET \* api.ts:169-206
        tryCdnJson == cdnAssetUris.cdn_json_uri # ""
        fromCdnJson ==
          IF tryCdnJson THEN FromJson(cdnAssetUris.cdn_json_uri, web) ELSE ""
        f1 == IF tryCdnJson THEN <<cdnAssetUris.cdn_json_uri>> ELSE <<>>
        \* api.ts:208-245
        assetUrl == convertIpfsUrl(cdnAssetUris.asset_uri)
        tryAssetJson ==
          /\ cdnAssetUris.asset_uri # ""
          /\ cdnAssetUris.cdn_json_uri = ""
          /\ endsWith(toLowerCase(cdnAssetUris.asset_uri), ".json")
        fromAssetJson == IF tryAssetJson THEN FromJson(assetUrl, web) ELSE ""
        f2 == IF tryAssetJson THEN Append(f1, assetUrl) ELSE f1
        \* api.ts:247-284
        tokenUri == convertIpfsUrl(token_uri)
        tryTokenUri ==
          /\ token_uri # ""
          /\ (cdnAssetUris.asset_uri = "" \/ cdnAssetUris.cdn_json_uri = "")
        fromTokenUri == IF tryTokenUri THEN FromJson(tokenUri, web) ELSE ""
        f3 == IF tryTokenUri THEN Append(f2, tokenUri) ELSE f2
    IN IF fromCdnJson # "" THEN [url |-> fromCdnJson, fetched |-> f1]
       ELSE IF fromAssetJson # "" THEN [url |-> fromAssetJson, fetched |-> f2]
       ELSE IF fromTokenUri # "" THEN [url |-> fromTokenUri, fetched |-> f3]
       \* api.ts:286-291
       ELSE IF cdnAssetUris.asset_uri # ""
               /\ ~endsWith(toLowerCase(cdnAssetUris.asset_uri), ".json")
       THEN [url |-> assetUrl, fetched |-> f3]
       \* api.ts:293-294
       ELSE [url |-> "", fetched |-> f3]

\* the values drawn for the fields of cdn_asset_uris and for token_uri
CdnImageValues == {"", "https://cdn/i.png"}
RawImageValues == {"", "ipfs://Qm/i"}
CdnAnimationValues == {"", "https://cdn/a.mp4"}
RawAnimationValues == {"", "ipfs://Qm/a.mp4"}
AssetValues == {"", "ipfs://Qm/x.PNG", "ipfs://Qm/m.json", "https://h/asset"}
CdnJsonValues == {"", "https://cdn/m.json"}
TokenUriValues == {"", "ipfs://Qm/t"}

\* the URLs a GET can be sent to, and what the GET can do
MetadataUrls ==
  {"https://cdn/m.json", "https://ipfs.io/ipfs/Qm/m.json",
   "https://ipfs.io/ipfs/Qm/t"}
FetchOutcomes ==
  { Throws, NotOk, NotJson, Answers(Doc("", "", "")),
    Answers(Doc("ipfs://Qm/pic.png", "", "")),
    Answers(Doc("", "", "https://h/anim.mp4")) }

ImageInputs ==
  { [fn |-> "getBestImageUrl", stage |-> "input",
     cdnAssetUris |-> Uris(ci, ri, ca, ra, au, cj), token_uri |-> tu,
     web |-> w] :
      ci \in CdnImageValues, ri \in RawImageValues,
      ca \in CdnAnimationValues, ra \in RawAnimationValues,
      au \in AssetValues, cj \in CdnJsonValues, tu \in TokenUriValues,
      w \in [MetadataUrls -> FetchOutcomes] }
  \cup
  { [fn |-> "getBestImageUrl", stage |-> "input", cdnAssetUris |-> NoUris,
     token_uri |-> tu, web |-> [u \in MetadataUrls |-> Throws]] :
      tu \in TokenUriValues }

\* the variables the application of a function leaves alone
NoEffect == UNCHANGED <<now, listingsCache, calls, dash, effectPending, inputs>>

\* api.ts:98-295 applied to the input in probe
Apply_getBestImageUrl ==
  /\ probe.fn = "getBestImageUrl"
  /\ probe.stage = "input"
  /\ probe' = [fn |-> "getBestImageUrl", stage |-> "output",
               cdnAssetUris |-> probe.cdnAssetUris,
               token_uri |-> probe.token_uri, web |-> probe.web,
               out |-> getBestImageUrl(probe.cdnAssetUris, probe.token_uri,
                                       probe.web)]
  /\ NoEffect

\* getBestImageUrl has returned
ImageResolved == probe.fn = "getBestImageUrl" /\ probe.stage = "output"

\* the first of the five direct sources that is present, "" when none is
FirstDirectSource(u) ==
  IF u.cdn_image_uri # "" THEN u.cdn_image_uri
  ELSE IF u.raw_image_uri # "" THEN convertIpfsUrl(u.raw_image_uri)
  ELSE IF u.cdn_animation_uri # "" THEN u.cdn_animation_uri
  ELSE IF u.raw_animation_uri # "" THEN convertIpfsUrl(u.raw_animation_uri)
  ELSE IF u.asset_uri # "" /\ IsImageName(toLowerCase(u.asset_uri))
  THEN convertIpfsUrl(u.asset_uri)
  ELSE ""

\* C18: getBestImageUrl resolves by fixed priority, first match wins: CDN
\* image, raw image (ipfs:// rewritten, any extension), CDN animation, raw
\* animation (rewritten), asset URI with an image extension (rewritten),
\* else an image field of a fetched metadata document; a present source of
\* higher priority wins, and nothing is fetched when one of the first five
\* matches.
C18_ImagePriority ==
  ImageResolved =>
    LET u == probe.cdnAssetUris
        out == probe.out
    IN /\ u.cdn_image_uri # "" => out.url = u.cdn_image_uri
       /\ (u.cdn_image_uri = "" /\ u.raw_image_uri # "")
            => out.url = "https://ipfs.io/ipfs/Qm/i"
       /\ (u.cdn_image_uri = "" /\ u.raw_image_uri = ""
             /\ u.cdn_animation_uri # "")
            => out.url = u.cdn_animation_uri
       /\ (u.cdn_image_uri = "" /\ u.raw_image_uri = ""
             /\ u.cdn_animation_uri = "" /\ u.raw_animation_uri # "")
            => out.url = "https://ipfs.io/ipfs/Qm/a.mp4"
       /\ (u.cdn_image_uri = "" /\ u.raw_image_uri = ""
             /\ u.cdn_animation_uri = "" /\ u.raw_animation_uri = ""
             /\ u.asset_uri = "ipfs://Qm/x.PNG")
            => out.url = "https://ipfs.io/ipfs/Qm/x.PNG"
       /\ FirstDirectSource(u) # "" => out.fetched = <<>>
       /\ (FirstDirectSource(u) = "" /\ out.url # "")
            => \/ \E g \in 1..Len(out.fetched) :
                    /\ probe.web[out.fetched[g]].kind = "doc"
                    /\ out.url = ImageOfDoc(probe.web[out.fetched[g]].doc)
                    /\ \A h \in 1..(g - 1) :
                         FromJson(out.fetched[h], probe.web) = ""
               \/ out.url = convertIpfsUrl(u.asset_uri)

\* a raw image URI without extension won over an animation URI, an asset
\* URI and a metadata document that has an image, and nothing was fetched
C18_Witness ==
  /\ ImageResolved
  /\ probe.cdnAssetUris.cdn_image_uri = ""
  /\ probe.cdnAssetUris.raw_image_uri = "ipfs://Qm/i"
  /\ probe.cdnAssetUris.cdn_animation_uri # ""
  /\ probe.cdnAssetUris.asset_uri = "ipfs://Qm/x.PNG"
  /\ probe.cdnAssetUris.cdn_json_uri # ""
  /\ probe.web[probe.cdnAssetUris.cdn_json_uri].kind = "doc"
  /\ probe.out = [url |-> "https://ipfs.io/ipfs/Qm/i", fetched |-> <<>>]

\* the remaining sources of a resolution: what each would yield if tried
FromAssetDocument(u, web) ==
  IF u.asset_uri # "" /\ endsWith(toLowerCase(u.asset_uri), ".json")
  THEN FromJson(convertIpfsUrl(u.asset_uri), web) ELSE ""
FromTokenDocument(token_uri, web) ==
  IF token_uri # "" THEN FromJson(convertIpfsUrl(token_uri), web) ELSE ""
FromAssetDirect(u) ==
  IF u.asset_uri # "" /\ ~endsWith(toLowerCase(u.asset_uri), ".json")
  THEN convertIpfsUrl(u.asset_uri) ELSE ""

\* C19: when a metadata document cannot be used the failure is swallowed and
\* the resolution goes on with every remaining source (asset URI as document,
\* token URI, asset URI used directly); no URL is returned only when none of
\* the remaining sources yields one.
C19_ContinuesWithEverySource ==
  (ImageResolved /\ ~probe.cdnAssetUris.absent /\ probe.out.url = "")
    => /\ FromAssetDocument(probe.cdnAssetUris, probe.web) = ""
       /\ FromTokenDocument(probe.token_uri, probe.web) = ""
       /\ FromAssetDirect(probe.cdnAssetUris) = ""

\* ---------------------------------------- api.ts:494-556: one upstream listing
\* current_token_data of a listing; "" stands for an absent field
TokenData(token_name, description, uris, token_uri, token_properties) ==
  [token_name |-> token_name, description |-> description,
   cdn_asset_uris |-> uris, token_uri |-> token_uri,
   token_properties |-> token_properties]
\* api.ts:507: listing.current_token_data || {}
NoTokenData == TokenData("", "", NoUris, "", "")

\* parseFloat of a price text: the leading digits, NaN when there is none
DigitOf(c) ==
  CASE c = "0" -> 0 [] c = "1" -> 1 [] c = "2" -> 2 [] c = "3" -> 3
    [] c = "4" -> 4 [] c = "5" -> 5 [] c = "6" -> 6 [] c = "7" -> 7
    [] c = "8" -> 8 [] c = "9" -> 9 [] OTHER -> -1

RECURSIVE LeadingDigits(_, _)
LeadingDigits(s, acc) ==
  IF Len(s) = 0 \/ DigitOf(SubSeq(s, 1, 1)) < 0 THEN acc
  ELSE LeadingDigits(SubSeq(s, 2, Len(s)),
                     acc * 10 + DigitOf(SubSeq(s, 1, 1)))

parseFloat(s) ==
  IF Len(s) = 0 \/ DigitOf(SubSeq(s, 1, 1)) < 0
  THEN [nan |-> TRUE, value |-> 0]
  ELSE [nan |-> FALSE, value |-> LeadingDigits(s, 0)]

\* api.ts:543: listing.price ? parseFloat(listing.price) / 100000000 : 0, for
\* prices that are whole multiples of one APT
PriceAmount(price) ==
  IF price = "" THEN [nan |-> FALSE, value |-> 0]
  ELSE [parseFloat(price) EXCEPT !.value = @ \div 100000000]

\* JSON.parse accepts the text of an object
JsonParses(s) == startsWith(s, "{") /\ endsWith(s, "}")

\* api.ts:1328-1337: the parsed object (stood for by its text), undefined for
\* an absent text and for a text JSON.parse throws on
parseTokenProperties(properties) ==
  IF properties = "" THEN Undefined
  ELSE IF JsonParses(properties) THEN properties
  ELSE Undefined

\* api.ts:496-505
FilterListing(listing) ==
  \/ /\ listing.marketplace # ""
     /\ includes(toLowerCase(listing.marketplace), "topaz")
  \/ listing.token_name # ""
  \/ listing.current_token_data.token_name # ""

\* variant: the flag does not look at the description
hasCompleteMetadata_NoDescription(listing, imageUrl) ==
  LET tokenData == listing.current_token_data
      hasCompleteName == listing.token_name # "" \/ tokenData.token_name # ""
      hasImage == imageUrl # ""
  IN hasCompleteName /\ hasImage

\* api.ts:527-531
hasCompleteMetadata(listing, imageUrl) ==
  LET tokenData == listing.current_token_data
      hasCompleteName == listing.token_name # "" \/ tokenData.token_name # ""
      hasDescription == tokenData.description # ""
      hasImage == imageUrl # ""
  IN hasCompleteName /\ hasDescription /\ hasImage

\* api.ts:506-553: the callback of listings.map.  web is what the GET of each
\* metadata URL does, rnd the text Math.random().toString(36).substring(7)
\* gives, today the text new Date().toISOString() gives.  threw: the callback
\* throws (its promise rejects) and nft is not produced.
NormalizeListing(listing, web, rnd) ==
  LET tokenData == listing.current_token_data
      resolved ==
        IF ~tokenData.cdn_asset_uris.absent
        THEN getBestImageUrl(tokenData.cdn_asset_uris, tokenData.token_uri,
                             web).url
        ELSE ""
      placeholderId == IF listing.token_name # "" THEN listing.token_name
                       ELSE rnd
      imageUrl ==
        IF resolved # "" THEN resolved
        ELSE "https://via.placeholder.com/500x500?text="
             \o encodeURIComponent(placeholderId)
      timestamp == listing.last_transaction_timestamp
  IN [threw |-> timestamp # "" /\ ~ValidDate(timestamp),
      resolved |-> resolved,
      nft |->
        [id |-> IF listing.token_data_id # "" THEN listing.token_data_id
                ELSE "listing-" \o listing.listing_id,
         name |-> IF listing.token_name # "" THEN listing.token_name
                  ELSE IF tokenData.token_name # "" THEN tokenData.token_name
                  ELSE "NFT #" \o (IF listing.listing_id # ""
                                   THEN listing.listing_id ELSE "Unknown"),
         description |->
           IF tokenData.description # "" THEN tokenData.description
           ELSE IF listing.collection_description # ""
           THEN listing.collection_description
           ELSE "No description available",
         image_url |-> imageUrl,
         price |-> PriceAmount(listing.price),
         token_properties |->
           parseTokenProperties(tokenData.token_properties),
         created_at |-> IF timestamp # "" THEN timestamp \o ".000Z"
                        ELSE "today",
         listing_id |-> listing.listing_id,
         hasCompleteMetadata |-> hasCompleteMetadata(listing, imageUrl)]]

\* api.ts:494-558 and 614-617: the listings of one response filtered and
\* mapped; Promise.all rejects when one callback throws, and the catch then
\* returns the sentinel
NormalizeListings(listings, web, rnd) ==
  LET kept == SelectSeq(listings, FilterListing)
      mapped == [i \in 1..Len(kept) |-> NormalizeListing(kept[i], web, rnd)]
  IN IF \E i \in 1..Len(mapped) : mapped[i].threw
     THEN [caught |-> TRUE, nfts |-> <<>>]
     ELSE [caught |-> FALSE, nfts |-> [i \in 1..Len(mapped) |-> mapped[i].nft]]

\* One row of current_nft_marketplace_listings with the fields the callback
\* reads; collection_description is collection_data.description
Listing(name, id, listing_id, marketplace, price, timestamp, cd, tokenData) ==
  [token_name |-> name, token_data_id |-> id,
   listing_id |-> listing_id, marketplace |-> marketplace, price |-> price,
   last_transaction_timestamp |-> timestamp,
   collection_description |-> cd,
   current_token_data |-> tokenData]

\* the values drawn for the fields of a listing
RandomIds == {"k3x9", "q7f2"}
TokenDatas ==
  {NoTokenData} \cup
  { TokenData(n, d, u, t, tp) :
      n \in {"", "Ape"}, d \in {"", "An ape"},
      u \in {NoUris, Uris("", "", "", "", "", ""),
             Uris("https://cdn/i.png", "", "", "", "", "")},
      t \in TokenUriValues, tp \in {"", "{\"fur\":\"gold\"}", "{fur"} }
ListingIds == {<<"0xa", "7">>, <<"", "7">>, <<"", "">>}
Webs ==
  { [u \in MetadataUrls |-> Throws],
    [u \in MetadataUrls |-> Answers(Doc("ipfs://Qm/pic.png", "", ""))] }

ListingInputs ==
  { [fn |-> "NormalizeListing", stage |-> "input",
     listing |-> Listing(n, ids[1], ids[2], m, pr, ts, cd, td),
     web |-> w, rnd |-> r] :
      n \in {"", "Ape #1"}, ids \in ListingIds, m \in {"", "Topaz", "wapal"},
      pr \in {"", "300000000", "abc"},
      ts \in {"", "2024-01-01T00:00:00", "not a date"},
      cd \in {"", "Cats"}, td \in TokenDatas, w \in Webs, r \in RandomIds }

\* api.ts:506-553 applied to the listing in probe
Apply_NormalizeListing ==
  /\ probe.fn = "NormalizeListing"
  /\ probe.stage = "input"
  /\ probe' = [fn |-> "NormalizeListing", stage |-> "output",
               listing |-> probe.listing, web |-> probe.web,
               rnd |-> probe.rnd,
               out |-> NormalizeListing(probe.listing, probe.web, probe.rnd)]
  /\ NoEffect

\* the listings drawn for a response: complete, without a name, with a
\* timestamp that is not a date, and with nothing but its marketplace
GoodListing ==
  Listing("Ape #1", "0xa", "7", "wapal", "300000000", "2024-01-01T00:00:00",
          "", TokenData("Ape", "An ape",
                        Uris("https://cdn/i.png", "", "", "", "", ""),
                        "", ""))
NamelessListing == [GoodListing EXCEPT !.token_name = "",
                                       !.token_data_id = "0xb",
                                       !.current_token_data = NoTokenData]
MisdatedListing == [GoodListing EXCEPT !.token_data_id = "0xc",
                                       !.last_transaction_timestamp =
                                          "not a date"]
BareListing ==
  Listing("", "", "", "Topaz", "", "", "", NoTokenData)
ResponseListings ==
  {GoodListing, NamelessListing, MisdatedListing, BareListing}

ResponseInputs ==
  { [fn |-> "NormalizeListings", stage |-> "input", listings |-> ls,
     web |-> [u \in MetadataUrls |-> Throws], rnd |-> "k3x9"] :
      ls \in {<<>>} \cup { <<a>> : a \in ResponseListings }
             \cup { <<a, b>> : a \in ResponseListings,
                               b \in ResponseListings } }

\* api.ts:494-558, 614-617 applied to the response in probe
Apply_NormalizeListings ==
  /\ probe.fn = "NormalizeListings"
  /\ probe.stage = "input"
  /\ probe' = [fn |-> "NormalizeListings", stage |-> "output",
               listings |-> probe.listings, web |-> probe.web,
               rnd |-> probe.rnd,
               out |-> NormalizeListings(probe.listings, probe.web,
                                         probe.rnd)]
  /\ NoEffect

\* C11: whichever fields of an upstream record are absent or malformed, its
\* normalization does not throw and yields one display record, and a
\* defective record does not lose the other records of the response: every
\* record of the response has its display record in the result.
C11_OneRecordEach ==
  /\ (probe.fn = "NormalizeListing" /\ probe.stage = "output")
       => ~probe.out.threw
  /\ (probe.fn = "NormalizeListings" /\ probe.stage = "output")
       => /\ ~probe.out.caught
          /\ Len(probe.out.nfts) = Len(probe.listings)
          /\ \A i \in 1..Len(probe.listings) :
               probe.out.nfts[i].id =
                 NormalizeListing(probe.listings[i], probe.web, probe.rnd).nft.id

\* the listing has a name, of its own or of its token data
ListingNamed(listing) ==
  listing.token_name # "" \/ listing.current_token_data.token_name # ""

\* C17, as stated: hasCompleteMetadata of a returned record is true if and
\* only if its name, description and image_url are all non-empty.
C17_FlagIffRecordFieldsNonEmpty ==
  (probe.fn = "NormalizeListing" /\ probe.stage = "output"
     /\ ~probe.out.threw)
    => LET nft == probe.out.nft
       IN nft.hasCompleteMetadata
            <=> (nft.name # "" /\ nft.description # "" /\ nft.image_url # "")

\* C17, amended: hasCompleteMetadata is true if and only if the upstream
\* listing has a token name (its own or its token data's) and its token data
\* has a description; the name, description and image_url of the record are
\* non-empty in either case.
C17_FlagIffUpstreamNameAndDescription ==
  (probe.fn = "NormalizeListing" /\ probe.stage = "output"
     /\ ~probe.out.threw)
    => LET nft == probe.out.nft
       IN /\ nft.hasCompleteMetadata
               <=> (ListingNamed(probe.listing)
                      /\ probe.listing.current_token_data.description # "")
          /\ nft.name # "" /\ nft.description # "" /\ nft.image_url # ""

\* a named listing without description of its own got the description of
\* its collection and a resolved image, and its flag is false
C17_Witness ==
  /\ probe.fn = "NormalizeListing" /\ probe.stage = "output"
  /\ ~probe.out.threw
  /\ probe.listing.token_name # ""
  /\ probe.out.nft.description = "Cats"
  /\ probe.out.nft.image_url = "https://cdn/i.png"
  /\ ~probe.out.nft.hasCompleteMetadata

\* C20: when the listing offers no usable image source, image_url is the
\* placeholder URL whose text is the URL-encoded name of the record.
C20_PlaceholderCarriesName ==
  (probe.fn = "NormalizeListing" /\ probe.stage = "output"
     /\ ~probe.out.threw /\ probe.out.resolved = "")
    => probe.out.nft.image_url =
         "https://via.placeholder.com/500x500?text="
           \o encodeURIComponent(probe.out.nft.name)

\* ------------------------------- api.ts:389-604: the page of one listings call
\* largest page size drawn
MaxPageSize == 2
\* largest number of rows the upstream table holds
MaxRows == 4

\* api.ts:396-405: the condition on the marketplace in the where clause, as
\* its operator and operands; op "" when there is none
MarketplaceFilter(marketplace) ==
  IF marketplace = Undefined THEN [op |-> "", arg |-> {}]
  ELSE IF toLowerCase(marketplace) = "topaz"
  THEN [op |-> "_eq", arg |-> {"topaz"}]
  ELSE IF includes(toLowerCase(marketplace), "tradeport")
  THEN [op |-> "_in", arg |-> {"tradeport_v1", "tradeport_v2"}]
  ELSE [op |-> "_ilike", arg |-> {marketplace}]

\* api.ts:392-393 and 409-420: limit, offset and where clause of the query
QueryOf(p) ==
  [limit |-> IF p.marketplace # Undefined THEN p.pageSize * 5
             ELSE IF p.hideIncompleteMetadata THEN p.pageSize * 3
             ELSE p.pageSize,
   offset |-> IF p.hideIncompleteMetadata \/ p.marketplace # Undefined
              THEN 0 ELSE (p.page - 1) * p.pageSize,
   marketplace |-> MarketplaceFilter(p.marketplace),
   collection |-> p.collection]

\* row i of the upstream table: on marketplace m, with or without description
TableRow(i, m, described) ==
  [token_data_id |-> "0x" \o NumberToString(i),
   listing_id |-> NumberToString(i), token_name |-> "T" \o NumberToString(i),
   marketplace |-> m, description |-> IF described THEN "text" ELSE "",
   cdn_image_uri |-> ""]

RowKinds == {"topaz", "wapal"} \X BOOLEAN

\* the upstream tables: every sequence of up to MaxRows rows, in the order
\* the query sorts them
Tables ==
  UNION { { [i \in 1..n |-> TableRow(i, k[i][1], k[i][2])] :
              k \in [1..n -> RowKinds] } : n \in 0..MaxRows }

\* the indexer evaluating the where clause on a row (every modelled row is in
\* a collection the collection filter matches)
Matches(row, q) ==
  CASE q.marketplace.op = "" -> TRUE
    [] q.marketplace.op \in {"_eq", "_in"} ->
         row.marketplace \in q.marketplace.arg
    [] q.marketplace.op = "_ilike" ->
         \E a \in q.marketplace.arg :
           toLowerCase(row.marketplace) = toLowerCase(a)

\* the indexer answering the query of api.ts:409-460 from its table: the
\* matching rows from offset on, at most limit of them, and their count
Upstream(table, q) ==
  LET matching == SelectSeq(table, LAMBDA r : Matches(r, q))
  IN BodyRows(slice(matching, q.offset, q.offset + q.limit), Len(matching))

PageInputs ==
  { [fn |-> "fetchActiveListings", stage |-> "input",
     params |-> [page |-> pg, pageSize |-> ps, collection |-> c,
                 marketplace |-> m, sortOrder |-> "timestamp_desc",
                 hideIncompleteMetadata |-> h],
     table |-> t] :
      pg \in 1..MaxPage, ps \in 1..MaxPageSize, c \in {Undefined, "cats"},
      m \in {Undefined, "topaz", "Wapal"}, h \in BOOLEAN, t \in Tables }

\* api.ts:389-604: one call that misses the cache and whose request
\* succeeds: the query sent, the body answered, the result returned
Apply_fetchActiveListings ==
  /\ probe.fn = "fetchActiveListings"
  /\ probe.stage = "input"
  /\ LET q == QueryOf(probe.params)
         body == Upstream(probe.table, q)
     IN probe' = [fn |-> "fetchActiveListings", stage |-> "output",
                  params |-> probe.params, table |-> probe.table,
                  query |-> q, body |-> body,
                  result |-> BuildResult(probe.params, body, 1)]
  /\ NoEffect

PageReturned == probe.fn = "fetchActiveListings" /\ probe.stage = "output"

\* the display records of the rows of the body, in upstream order
BatchRecords(body) ==
  [i \in 1..Len(body.rows) |-> MapListing(body.rows[i])]

\* C14: with hideIncompleteMetadata false the pagination is the upstream's,
\* for every marketplace and collection filter: the query has limit =
\* pageSize and offset = (page - 1) * pageSize, and the page returned is the
\* upstream page, not sliced.
C14_PaginationDelegated ==
  (PageReturned /\ ~probe.params.hideIncompleteMetadata)
    => /\ probe.query.limit = probe.params.pageSize
       /\ probe.query.offset =
            (probe.params.page - 1) * probe.params.pageSize
       /\ probe.result.nfts = BatchRecords(probe.body)

C16_AtMostPageSize ==
  (PageReturned /\ Len(probe.body.rows) <= probe.query.limit)
    => Len(probe.result.nfts) <= probe.params.pageSize

\* -------------------------------- AptosClient.ts:52-130: AptosClient.queryGraphQL
\* AptosClient.ts:37-40: the endpoints of the client
nftIndexerEndpoint ==
  "https://api.mainnet.aptoslabs.com/nft-aggregator-staging/v1/graphql"
indexerEndpoint == "https://indexer.mainnet.aptoslabs.com/v1/graphql"

\* the data field of a decoded payload: absent, or an object with the fields
\* named; rows and count are what its listings fields hold (what the
\* listings fields of its data field hold, when its only field is data)
NoData == [defined |-> FALSE, fields |-> {}, rows |-> <<>>, count |-> 0]
ListingsData(rows, count) ==
  [defined |-> TRUE,
   fields |-> {"current_nft_marketplace_listings",
               "current_nft_marketplace_listings_aggregate"},
   rows |-> rows, count |-> count]
WrappedData(rows, count) ==
  [defined |-> TRUE, fields |-> {"data"}, rows |-> rows, count |-> count]

\* the body of a response: text that response.json() cannot decode, the JSON
\* null, or an object; errors is "absent", "empty" ([]) or "list"
Undecodable ==
  [decodes |-> FALSE, isNull |-> FALSE, errors |-> "absent", data |-> NoData]
NullPayload ==
  [decodes |-> TRUE, isNull |-> TRUE, errors |-> "absent", data |-> NoData]
Payload(errors, data) ==
  [decodes |-> TRUE, isNull |-> FALSE, errors |-> errors, data |-> data]

\* what fetch does: it throws, or it answers with a status and a body
FetchThrows == [kind |-> "throws", ok |-> FALSE, payload |-> Undecodable]
Response(ok, payload) ==
  [kind |-> "response", ok |-> ok, payload |-> payload]

Rejected(error, requests) ==
  [settle |-> "rejected", error |-> error, value |-> NoData,
   requests |-> requests]
Resolved(value, requests) ==
  [settle |-> "resolved", error |-> "", value |-> value,
   requests |-> requests]

\* AptosClient.ts:70-84 and 100-113: the request of one fetch
RequestOf(endpoint, apiKey) ==
  [url |-> IF endpoint = Undefined THEN indexerEndpoint ELSE endpoint,
   method |-> "POST",
   headers |-> {<<"Content-Type", "application/json">>}
                 \cup (IF apiKey # "" THEN {<<"x-api-key", apiKey>>}
                       ELSE {})]

\* variant: a payload with errors resolves to its data field
queryGraphQL_IgnoresErrors(endpoint, apiKey, answer) ==
  LET requests == <<RequestOf(endpoint, apiKey)>>
  IN IF answer.kind = "throws" THEN Rejected("fetch", requests)
     ELSE IF ~answer.ok THEN Rejected("GraphQL request failed", requests)
     ELSE IF ~answer.payload.decodes THEN Rejected("SyntaxError", requests)
     ELSE IF answer.payload.isNull THEN Rejected("TypeError", requests)
     ELSE Resolved(answer.payload.data, requests)

\* AptosClient.ts:52-130: both branches send one fetch; the catch of line
\* 126 rethrows whatever was thrown: by fetch, by the status check, by
\* response.json() on a body that is not JSON, by reading .errors of null,
\* by the errors check (an empty list is truthy too)
queryGraphQL(endpoint, apiKey, answer) ==
  LET requests == <<RequestOf(endpoint, apiKey)>>
  IN IF answer.kind = "throws" THEN Rejected("fetch", requests)
     ELSE IF ~answer.ok THEN Rejected("GraphQL request failed", requests)
     ELSE IF ~answer.payload.decodes THEN Rejected("SyntaxError", requests)
     ELSE IF answer.payload.isNull THEN Rejected("TypeError", requests)
     ELSE IF answer.payload.errors # "absent"
     THEN Rejected("GraphQL errors", requests)
     ELSE Resolved(answer.payload.data, requests)

DataValues ==
  { NoData, ListingsData(<<>>, 0), ListingsData(<<RowApe>>, 1),
    ListingsData(<<RowApe, RowBee>>, 2),
    ListingsData(<<RowNameless, RowBee, RowApe>>, 5),
    WrappedData(<<RowApe, RowBee>>, 2) }

Payloads ==
  {Undecodable, NullPayload}
    \cup { Payload(e, d) : e \in {"absent", "empty", "list"},
                           d \in DataValues }

FetchAnswers ==
  {FetchThrows} \cup { Response(ok, pl) : ok \in BOOLEAN, pl \in Payloads }

QueryInputs ==
  { [fn |-> "queryGraphQL", stage |-> "input", endpoint |-> e,
     apiKey |-> k, answer |-> a] :
      e \in {Undefined, nftIndexerEndpoint, "https://other/graphql"},
      k \in {"", "key"}, a \in FetchAnswers }

Apply_queryGraphQL ==
  /\ probe.fn = "queryGraphQL"
  /\ probe.stage = "input"
  /\ probe' = [fn |-> "queryGraphQL", stage |-> "output",
               endpoint |-> probe.endpoint, apiKey |-> probe.apiKey,
               answer |-> probe.answer,
               outcome |-> queryGraphQL(probe.endpoint, probe.apiKey,
                                        probe.answer)]
  /\ NoEffect

QuerySettled == probe.fn = "queryGraphQL" /\ probe.stage = "output"

\* the three cases of failure: fetch throws, the status is not successful,
\* the decoded payload has an errors list
FailsInNamedCase(answer) ==
  \/ answer.kind = "throws"
  \/ ~answer.ok
  \/ /\ answer.payload.decodes
     /\ ~answer.payload.isNull
     /\ answer.payload.errors # "absent"

\* C12: queryGraphQL performs exactly one network call and rejects when the
\* transport call throws, the status is not successful or the decoded
\* payload carries an errors list; in every other case it resolves to the
\* data field of the payload.
C12_RejectsInThreeCasesOnly ==
  QuerySettled
    => /\ Len(probe.outcome.requests) = 1
       /\ FailsInNamedCase(probe.answer)
            => probe.outcome.settle = "rejected"
       /\ ~FailsInNamedCase(probe.answer)
            => /\ probe.outcome.settle = "resolved"
               /\ probe.outcome.value = probe.answer.payload.data

\* C12, amended: exactly one network call; it rejects in the three cases
\* and also when the body of a successful response cannot be decoded as JSON
\* or decodes to null; in every other case it resolves to the data field of
\* the payload.
C12_RejectsAlsoOnUndecodableBody ==
  QuerySettled
    => LET fails == \/ FailsInNamedCase(probe.answer)
                    \/ ~probe.answer.payload.decodes
                    \/ probe.answer.payload.isNull
       IN /\ Len(probe.outcome.requests) = 1
          /\ fails => probe.outcome.settle = "rejected"
          /\ ~fails => /\ probe.outcome.settle = "resolved"
                       /\ probe.outcome.value = probe.answer.payload.data

\* a successful response whose payload has an errors list beside its data
\* has been rejected after one request
C12_Witness ==
  /\ QuerySettled
  /\ probe.answer.kind = "response" /\ probe.answer.ok
  /\ probe.answer.payload.errors = "list"
  /\ probe.answer.payload.data.defined
  /\ probe.outcome.settle = "rejected"
  /\ Len(probe.outcome.requests) = 1

\* ------------------- AptosClient.ts:1161-1414: NFTService.fetchActiveListings
\* AptosClient.ts:1326-1376: the record of a listing; as MapListing, with
\* the placeholder of line 1349
NFTService_MapListing(listing) ==
  [MapListing(listing) EXCEPT
     !.image_url = IF listing.cdn_image_uri # "" THEN listing.cdn_image_uri
                   ELSE "https://placehold.co/500x500/eee/999?text="
                        \o encodeURIComponent(listing.token_name)]

\* AptosClient.ts:1296-1408, for a call that misses the cache: the value of
\* queryGraphQL is read as an object with a data field
NFTService_fetchActiveListings(p, apiKey, answer) ==
  LET responseData == queryGraphQL(nftIndexerEndpoint, apiKey, answer)
      kept == SelectSeq(responseData.value.rows, KeepListing)
      nfts == [i \in 1..Len(kept) |-> NFTService_MapListing(kept[i])]
      filteredNfts ==
        IF p.hideIncompleteMetadata
        THEN SelectSeq(nfts, LAMBDA n : n.hasCompleteMetadata) ELSE nfts
      startIndex == (p.page - 1) * p.pageSize
  IN IF responseData.settle = "rejected" THEN [nfts |-> <<>>, total |-> 0]
     ELSE IF ~responseData.value.defined
             \/ "data" \notin responseData.value.fields
     THEN [nfts |-> <<>>, total |-> 0]
     ELSE [nfts |-> IF p.hideIncompleteMetadata
                    THEN slice(filteredNfts, startIndex,
                               startIndex + p.pageSize)
                    ELSE filteredNfts,
           total |-> IF p.hideIncompleteMetadata THEN Len(filteredNfts)
                     ELSE IF responseData.value.count # 0
                     THEN responseData.value.count
                     ELSE Len(responseData.value.rows)]

\* api.ts:464-491: the body api.ts reads from the same answer
BodyOf(payload) ==
  IF payload.errors # "absent" THEN BodyErrors
  ELSE IF ~payload.data.defined
          \/ "current_nft_marketplace_listings" \notin payload.data.fields
  THEN BodyNoData
  ELSE BodyRows(payload.data.rows, payload.data.count)

\* api.ts:462-617, for a call that misses the cache
Api_fetchActiveListings(p, answer) ==
  IF \/ answer.kind = "throws"
     \/ ~answer.ok
     \/ ~answer.payload.decodes
     \/ answer.payload.isNull
     \/ ~BodyStores(BodyOf(answer.payload))
  THEN [nfts |-> <<>>, total |-> 0]
  ELSE LET r == BuildResult(p, BodyOf(answer.payload), 1)
       IN [nfts |-> r.nfts, total |-> r.total]

FacadeInputs ==
  { [fn |-> "facade", stage |-> "input",
     params |-> [page |-> pg, pageSize |-> ps, collection |-> Undefined,
                 marketplace |-> Undefined, sortOrder |-> "timestamp_desc",
                 hideIncompleteMetadata |-> h],
     apiKey |-> k, answer |-> a] :
      pg \in 1..MaxPage, ps \in 1..MaxPageSize, h \in BOOLEAN,
      k \in {"", "key"}, a \in FetchAnswers }

\* part_004:34-43: the facade hands the call to nftService; the same call
\* made to api.ts beside it
Apply_facade_fetchActiveListings ==
  /\ probe.fn = "facade"
  /\ probe.stage = "input"
  /\ probe' = [fn |-> "facade", stage |-> "output",
               params |-> probe.params, apiKey |-> probe.apiKey,
               answer |-> probe.answer,
               service |-> NFTService_fetchActiveListings(
                             probe.params, probe.apiKey, probe.answer),
               api |-> Api_fetchActiveListings(probe.params, probe.answer)]
  /\ NoEffect

\* the answer is a successful response {data: {current_nft_marketplace_
\* listings: [...], ...}}
StandardResponse(answer) ==
  /\ answer.kind = "response" /\ answer.ok
  /\ answer.payload.decodes /\ ~answer.payload.isNull
  /\ answer.payload.errors = "absent"
  /\ answer.payload.data.defined
  /\ "current_nft_marketplace_listings" \in answer.payload.data.fields

\* C13: for the same parameters and the same successful upstream response
\* {data: {current_nft_marketplace_listings: [...], ...}} the facade's
\* fetchActiveListings and api.ts fetchActiveListings return the same list of
\* display records and the same total.
C13_FacadeCompatible ==
  (probe.fn = "facade" /\ probe.stage = "output"
     /\ StandardResponse(probe.answer))
    => /\ probe.service.nfts = probe.api.nfts
       /\ probe.service.total = probe.api.total

\* ------------------------------------------- api.ts:27-76: marketplace names
\* longest generated marketplace identifier
MaxNameLen == 4

UpperOf(c) ==
  CASE c = "a" -> "A" [] c = "b" -> "B" [] c = "c" -> "C" [] c = "d" -> "D"
    [] c = "e" -> "E" [] c = "f" -> "F" [] c = "g" -> "G" [] c = "h" -> "H"
    [] c = "i" -> "I" [] c = "j" -> "J" [] c = "k" -> "K" [] c = "l" -> "L"
    [] c = "m" -> "M" [] c = "n" -> "N" [] c = "o" -> "O" [] c = "p" -> "P"
    [] c = "q" -> "Q" [] c = "r" -> "R" [] c = "s" -> "S" [] c = "t" -> "T"
    [] c = "u" -> "U" [] c = "v" -> "V" [] c = "w" -> "W" [] c = "x" -> "X"
    [] c = "y" -> "Y" [] c = "z" -> "Z"
    [] OTHER -> c

\* the number of digits the text ends with
RECURSIVE DigitsAtEnd(_)
DigitsAtEnd(s) ==
  IF Len(s) = 0 \/ DigitOf(SubSeq(s, Len(s), Len(s))) < 0 THEN 0
  ELSE 1 + DigitsAtEnd(SubSeq(s, 1, Len(s) - 1))

\* api.ts:52 and 71: .replace(/_v\d+$/i, '')
RemoveVSuffix(s) ==
  LET k == DigitsAtEnd(s)
      n == Len(s) - k
  IN IF /\ k >= 1
        /\ n >= 2
        /\ LowerOf(SubSeq(s, n, n)) = "v"
        /\ SubSeq(s, n - 1, n - 1) = "_"
     THEN SubSeq(s, 1, n - 2) ELSE s

\* api.ts:53 and 72: .replace(/_\d+$/i, '')
RemoveNumberSuffix(s) ==
  LET k == DigitsAtEnd(s)
      n == Len(s) - k
  IN IF k >= 1 /\ n >= 1 /\ SubSeq(s, n, n) = "_"
     THEN SubSeq(s, 1, n - 1) ELSE s

\* api.ts:54 and 73: .replace(/[-_]/g, with)
RECURSIVE ReplaceSeparators(_, _)
ReplaceSeparators(s, with) ==
  IF Len(s) = 0 THEN ""
  ELSE (IF SubSeq(s, 1, 1) \in {"-", "_"} THEN with ELSE SubSeq(s, 1, 1))
       \o ReplaceSeparators(SubSeq(s, 2, Len(s)), with)

\* api.ts:57-60: split(' '), first letter of each word to upper case and the
\* rest to lower case, join(' '); atStart tells that a word starts here
RECURSIVE CapitalizeWords(_, _)
CapitalizeWords(s, atStart) ==
  IF Len(s) = 0 THEN ""
  ELSE IF SubSeq(s, 1, 1) = " "
  THEN " " \o CapitalizeWords(SubSeq(s, 2, Len(s)), TRUE)
  ELSE (IF atStart THEN UpperOf(SubSeq(s, 1, 1))
        ELSE LowerOf(SubSeq(s, 1, 1)))
       \o CapitalizeWords(SubSeq(s, 2, Len(s)), FALSE)

\* api.ts:31-62
formatMarketplaceName(name) ==
  IF name = "" THEN "Unknown"
  ELSE IF includes(toLowerCase(name), "topaz") THEN "Topaz (Deprecated)"
  ELSE IF includes(toLowerCase(name), "tradeport") THEN "TradePort"
  ELSE IF includes(toLowerCase(name), "bluemove") THEN "Bluemove"
  ELSE CapitalizeWords(
         ReplaceSeparators(RemoveNumberSuffix(RemoveVSuffix(name)), " "),
         TRUE)

\* api.ts:68-76
getBaseMarketplaceName(name) ==
  IF name = "" THEN "unknown"
  ELSE ReplaceSeparators(
         RemoveNumberSuffix(RemoveVSuffix(toLowerCase(name))), "")

RECURSIVE Concat(_)
Concat(chars) ==
  IF Len(chars) = 0 THEN "" ELSE Head(chars) \o Concat(Tail(chars))

\* the raw identifiers: every text of up to MaxNameLen characters over
\* letters, a digit and the separators, and the names met upstream
NameChars == {"a", "V", "v", "1", "_", "-"}
GeneratedNames ==
  UNION { { Concat(f) : f \in [1..n -> NameChars] } : n \in 0..MaxNameLen }
KnownNames ==
  {"topaz", "Topaz (Deprecated)", "tradeport_v1", "tradeport_v2",
   "TradePort", "bluemove", "Bluemove", "wapal", "wapal_v2", "mercato_1",
   "souffl3-market", "okx_nft_v3", "Unknown"}
RawNames == GeneratedNames \cup KnownNames

NameInputs ==
  { [fn |-> "formatMarketplaceName", stage |-> "input", name |-> n] :
      n \in RawNames }

\* api.ts:31-62: the name formatted, and the formatted name formatted again
Apply_formatMarketplaceName ==
  /\ probe.fn = "formatMarketplaceName"
  /\ probe.stage = "input"
  /\ probe' = [fn |-> "formatMarketplaceName", stage |-> "output",
               name |-> probe.name,
               once |-> formatMarketplaceName(probe.name),
               twice |-> formatMarketplaceName(
                           formatMarketplaceName(probe.name))]
  /\ NoEffect

\* C21: formatMarketplaceName is idempotent: for every raw marketplace
\* identifier, formatting the formatted name again gives the formatted name.
C21_FormatIdempotent ==
  (probe.fn = "formatMarketplaceName" /\ probe.stage = "output")
    => probe.twice = probe.once

\* ---------------------------------- api.ts:914-1066: fetchMarketplaceConfigs
\* largest number of marketplaces the upstream lists
MaxItems == 3

\* Array.prototype.join
RECURSIVE join(_, _)
join(strings, sep) ==
  IF Len(strings) = 0 THEN ""
  ELSE IF Len(strings) = 1 THEN strings[1]
  ELSE strings[1] \o sep \o join(Tail(strings), sep)

\* variant: every identifier is a group of its own
GroupItem_ByName(groups, marketplace) ==
  LET marketplaceName == IF marketplace = "" THEN "unknown" ELSE marketplace
  IN IF includes(toLowerCase(marketplaceName), "topaz") THEN groups
     ELSE Append(groups, [baseName |-> toLowerCase(marketplaceName),
                          versionNames |-> <<marketplaceName>>])

\* api.ts:959-978: one step of the forEach; groupedMarketplaces is kept as
\* the sequence of its entries in insertion order (no modelled base name is
\* an integer key, which Object.entries would move to the front)
GroupItem(groups, marketplace) ==
  LET marketplaceName == IF marketplace = "" THEN "unknown" ELSE marketplace
      baseName == IF includes(toLowerCase(marketplaceName), "tradeport")
                  THEN "tradeport"
                  ELSE getBaseMarketplaceName(marketplaceName)
      at == { i \in 1..Len(groups) : groups[i].baseName = baseName }
  IN IF includes(toLowerCase(marketplaceName), "topaz") THEN groups
     ELSE IF at = {}
     THEN Append(groups, [baseName |-> baseName,
                          versionNames |-> <<marketplaceName>>])
     ELSE [i \in 1..Len(groups) |->
             IF i \in at
                /\ \A k \in 1..Len(groups[i].versionNames) :
                     groups[i].versionNames[k] # marketplaceName
             THEN [groups[i] EXCEPT
                     !.versionNames = Append(@, marketplaceName)]
             ELSE groups[i]]

\* api.ts:957-978: the forEach over the items, from the first to the last
RECURSIVE GroupItems(_)
GroupItems(items) ==
  IF Len(items) = 0 THEN <<>>
  ELSE GroupItem(GroupItems(SubSeq(items, 1, Len(items) - 1)),
                 items[Len(items)])

\* api.ts:1023-1066, with the fields the Dashboard and the stats read
getDefaultMarketplaces ==
  << [id |-> "1", name |-> "TradePort",
      rawValues |-> "tradeport_v1,tradeport_v2"],
     [id |-> "2", name |-> "Bluemove", rawValues |-> "bluemove"],
     [id |-> "3", name |-> "Rarible", rawValues |-> "rarible"],
     [id |-> "4", name |-> "Wapal", rawValues |-> "wapal"] >>

\* what the indexer answers to the query of api.ts:920-929
ItemsThrows == [kind |-> "throws", items |-> <<>>]
ItemsNotOk == [kind |-> "not_ok", items |-> <<>>]
ItemsErrors == [kind |-> "errors", items |-> <<>>]
Items(items) == [kind |-> "items", items |-> items]

\* api.ts:914-1017, with the fields the Dashboard and the stats read
fetchMarketplaceConfigs(answer) ==
  LET groupedMarketplaces == GroupItems(answer.items)
  IN IF answer.kind # "items" \/ Len(answer.items) = 0
        \/ Len(groupedMarketplaces) = 0
     THEN getDefaultMarketplaces
     ELSE [index \in 1..Len(groupedMarketplaces) |->
             LET g == groupedMarketplaces[index]
             IN [id |-> NumberToString(index),
                 name |-> formatMarketplaceName(g.baseName),
                 rawValues |-> IF g.baseName = "tradeport"
                               THEN "tradeport_v1,tradeport_v2"
                               ELSE join(g.versionNames, ",")]]

\* the identifiers of the upstream's marketplaces ("" for a row without one)
ItemNames ==
  {"", "topaz", "topaz_v2", "tradeport_v1", "tradeport_v2", "tradeport_1",
   "wapal", "wapal_v2", "Wapal_1", "bluemove", "mercato_v1", "mercato_v2"}

\* the lists of up to n distinct identifiers (distinct_on: marketplace)
DistinctLists(names, n) ==
  UNION { { f \in [1..k -> names] :
              \A i, j \in 1..k : i # j => f[i] # f[j] } : k \in 0..n }

ConfigAnswers ==
  {ItemsThrows, ItemsNotOk, ItemsErrors}
    \cup { Items(l) : l \in DistinctLists(ItemNames, MaxItems) }

ConfigInputs ==
  { [fn |-> "fetchMarketplaceConfigs", stage |-> "input", answer |-> a] :
      a \in ConfigAnswers }

Apply_fetchMarketplaceConfigs ==
  /\ probe.fn = "fetchMarketplaceConfigs"
  /\ probe.stage = "input"
  /\ probe' = [fn |-> "fetchMarketplaceConfigs", stage |-> "output",
               answer |-> probe.answer,
               configs |-> fetchMarketplaceConfigs(probe.answer)]
  /\ NoEffect

\* ------------------- api.ts:1072-1322: fetchAggregatorStats, the distribution
\* marketplaceDistribution[name] = percentage, the object kept as the
\* sequence of its entries in insertion order
AssignShare(dist, name, percentage) ==
  IF \E i \in 1..Len(dist) : dist[i].name = name
  THEN [i \in 1..Len(dist) |->
          IF dist[i].name = name
          THEN [name |-> name, percentage |-> percentage] ELSE dist[i]]
  ELSE Append(dist, [name |-> name, percentage |-> percentage])

RECURSIVE SumShares(_)
SumShares(dist) ==
  IF Len(dist) = 0 THEN 0
  ELSE dist[1].percentage + SumShares(Tail(dist))

RECURSIVE SumSales(_)
SumSales(sales) ==
  IF Len(sales) = 0 THEN 0 ELSE sales[1] + SumSales(Tail(sales))

\* api.ts:1184-1199: the forEach of the sales-weighted split up to item n
\* (the quotient taken on integers)
RECURSIVE SalesShares(_, _, _, _)
SalesShares(marketplaces, sales, totalSales, n) ==
  IF n = 0 THEN <<>>
  ELSE LET before == SalesShares(marketplaces, sales, totalSales, n - 1)
           floor == (sales[n] * 100) \div totalSales
           percentage == IF sales[n] > 0 /\ floor = 0 THEN 1 ELSE floor
       IN IF marketplaces[n] = "" THEN before
          ELSE AssignShare(before, formatMarketplaceName(marketplaces[n]),
                           percentage)

\* api.ts:1201-1213: the entry with the highest value, the first of them in
\* insertion order, takes the difference to 100
AdjustLargest(dist) ==
  LET currentTotal == SumShares(dist)
      largest == CHOOSE i \in 1..Len(dist) :
                   /\ \A j \in 1..Len(dist) :
                        dist[j].percentage <= dist[i].percentage
                   /\ \A j \in 1..(i - 1) :
                        dist[j].percentage < dist[i].percentage
  IN IF currentTotal = 100 \/ Len(dist) = 0 THEN dist
     ELSE [dist EXCEPT ![largest].percentage = @ + (100 - currentTotal)]

\* api.ts:1226-1243: distributeEvenly up to item n
RECURSIVE EvenShares(_, _)
EvenShares(marketplaces, n) ==
  IF n = 0 THEN <<>>
  ELSE LET before == EvenShares(marketplaces, n - 1)
           basePercentPerMarketplace == 100 \div Len(marketplaces)
           percentage ==
             IF n = Len(marketplaces)
             THEN 100 - basePercentPerMarketplace * (Len(marketplaces) - 1)
             ELSE basePercentPerMarketplace
       IN IF marketplaces[n] = "" THEN before
          ELSE AssignShare(before, formatMarketplaceName(marketplaces[n]),
                           percentage)

\* api.ts:1256-1268: the split over the configs up to config n
RECURSIVE ConfigShares(_, _)
ConfigShares(configs, n) ==
  IF n = 0 THEN <<>>
  ELSE LET sharePerMarketplace == 100 \div Len(configs)
       IN AssignShare(ConfigShares(configs, n - 1), configs[n].name,
                      IF n = Len(configs)
                      THEN 100 - sharePerMarketplace * (Len(configs) - 1)
                      ELSE sharePerMarketplace)

\* api.ts:1273-1278 and 1313-1318
DefaultDistribution ==
  << [name |-> "Tradeport", percentage |-> 30],
     [name |-> "Bluemove", percentage |-> 30],
     [name |-> "Rarible", percentage |-> 20],
     [name |-> "Wapal", percentage |-> 20] >>

\* api.ts:1151-1280 and 1298-1320: the distribution of the stats, from the
\* answer to the distribution query, the sales count of each marketplace (0
\* when its request fails) and the configs; path names the branch taken
marketplaceDistribution(answer, sales, configs) ==
  LET marketplaces == IF answer.kind = "items" THEN answer.items ELSE <<>>
      totalSales == SumSales(sales)
      fromApi ==
        IF Len(marketplaces) = 0 THEN [path |-> "none", dist |-> <<>>]
        ELSE IF totalSales > 0
        THEN [path |-> "sales",
              dist |-> AdjustLargest(
                         SalesShares(marketplaces, sales, totalSales,
                                     Len(marketplaces)))]
        ELSE [path |-> "even",
              dist |-> EvenShares(marketplaces, Len(marketplaces))]
  IN IF answer.kind = "throws"
     THEN [path |-> "default", dist |-> DefaultDistribution]
     ELSE IF Len(fromApi.dist) > 0 THEN fromApi
     ELSE IF Len(configs) > 0
     THEN [path |-> "configs", dist |-> ConfigShares(configs, Len(configs))]
     ELSE [path |-> "default", dist |-> DefaultDistribution]

\* the sales counts drawn for a marketplace
SalesValues == {0, 1, 200}
StatNames == {"", "tradeport_v1", "tradeport_v2", "wapal", "bluemove"}

StatsInputs ==
  UNION { { [fn |-> "fetchAggregatorStats", stage |-> "input",
             answer |-> a, sales |-> sl, configsAnswer |-> c] :
              sl \in [1..Len(a.items) -> SalesValues],
              c \in {ItemsNotOk, a} } :
          a \in {ItemsThrows, ItemsNotOk, ItemsErrors}
                  \cup { Items(l) : l \in DistinctLists(StatNames,
                                                        MaxItems) } }

Apply_fetchAggregatorStats ==
  /\ probe.fn = "fetchAggregatorStats"
  /\ probe.stage = "input"
  /\ probe' = [fn |-> "fetchAggregatorStats", stage |-> "output",
               answer |-> probe.answer, sales |-> probe.sales,
               configsAnswer |-> probe.configsAnswer,
               stats |-> marketplaceDistribution(
                           probe.answer, probe.sales,
                           fetchMarketplaceConfigs(probe.configsAnswer))]
  /\ NoEffect

\* C22: the marketplace_distribution of fetchAggregatorStats sums to exactly
\* 100 on every path (sales-weighted, even, configs, default), and on the
\* even path with N marketplaces every entry is floor(100 / N) except the
\* last, which takes the remainder.
C22_SharesSumTo100 ==
  (probe.fn = "fetchAggregatorStats" /\ probe.stage = "output")
    => LET dist == probe.stats.dist
           N == Len(probe.answer.items)
       IN /\ SumShares(dist) = 100
          /\ probe.stats.path = "even"
               => /\ Len(dist) = N
                  /\ \A i \in 1..(N - 1) : dist[i].percentage = 100 \div N
                  /\ dist[N].percentage = 100 - (100 \div N) * (N - 1)

\* --------------- Dashboard.tsx:258-264, 403-415: the marketplace of a config
\* String.prototype.split(sep) for a one-character separator; cur is the
\* part read so far
RECURSIVE SplitFrom(_, _, _)
SplitFrom(s, sep, cur) ==
  IF Len(s) = 0 THEN <<cur>>
  ELSE IF SubSeq(s, 1, 1) = sep
  THEN <<cur>> \o SplitFrom(SubSeq(s, 2, Len(s)), sep, "")
  ELSE SplitFrom(SubSeq(s, 2, Len(s)), sep, cur \o SubSeq(s, 1, 1))

split(s, sep) == SplitFrom(s, sep, "")

\* Dashboard.tsx:411: the value of the option of a config
OptionValue(marketplace) ==
  IF marketplace.rawValues # "" THEN marketplace.rawValues
  ELSE toLowerCase(marketplace.name)

\* the raw identifiers the listings of the upstream carry
UpstreamNames == ItemNames \ {""}

SelectInputs ==
  UNION { { [fn |-> "handleMarketplaceChange", stage |-> "input",
             answer |-> a, option |-> i] :
              i \in 1..Len(fetchMarketplaceConfigs(a)) } :
          a \in ConfigAnswers }

\* Dashboard.tsx:258-264 and 106-116, api.ts:392-420: the option of a config
\* is selected, the load that follows passes its value as marketplace, and
\* the indexer evaluates the where clause on the listings of each identifier
Apply_handleMarketplaceChange ==
  /\ probe.fn = "handleMarketplaceChange"
  /\ probe.stage = "input"
  /\ LET config == fetchMarketplaceConfigs(probe.answer)[probe.option]
         value == OptionValue(config)
         params == [page |-> 1, pageSize |-> pageSize,
                    collection |-> Undefined,
                    marketplace |-> OrUndefined(value),
                    sortOrder |-> "timestamp_desc",
                    hideIncompleteMetadata |-> FALSE]
         q == QueryOf(params)
     IN probe' = [fn |-> "handleMarketplaceChange", stage |-> "output",
                  answer |-> probe.answer, option |-> probe.option,
                  config |-> config, selectedMarketplace |-> value,
                  query |-> q,
                  matched |-> { r \in UpstreamNames :
                                  Matches([marketplace |-> r], q) }]
  /\ NoEffect

\* C23: selecting a marketplace whose config lists several raw identifiers in
\* rawValues filters the listings to exactly those whose raw marketplace
\* identifier is one of the listed ones.
C23_FiltersToRawValues ==
  (probe.fn = "handleMarketplaceChange" /\ probe.stage = "output"
     /\ Len(split(probe.config.rawValues, ",")) >= 2)
    => LET listed == split(probe.config.rawValues, ",")
       IN probe.matched =
            { r \in UpstreamNames : \E k \in 1..Len(listed) : listed[k] = r }

\* --------------------- part_004:11-32, AptosClient.ts:70-84, 152-161: API key
\* number of requests and key updates in one run
MaxKeySteps == 4

ApiKeys == {"", "k1", "k2"}

\* AptosClient.ts:146-161: the request of queryAnalytics
AnalyticsRequestOf(path, apiKey) ==
  [url |-> "https://api.mainnet.aptoslabs.com/v1/analytics" \o path,
   method |-> "GET",
   headers |-> IF apiKey # "" THEN {<<"x-api-key", apiKey>>} ELSE {}]

\* part_004:11-17: the singletons made with the default key; aptosClient is
\* the exported client, nftService.client the client the service holds
KeyInputs ==
  { [fn |-> "updateApiKey", stage |-> "run", configured |-> k,
     aptosClient |-> [apiKey |-> k],
     nftService |-> [client |-> [apiKey |-> k]],
     sent |-> <<>>, steps |-> 0] : k \in ApiKeys }

\* variant: only the exported client takes the new key
updateApiKey_ClientOnly(apiKey) ==
  /\ probe.fn = "updateApiKey"
  /\ probe.steps < MaxKeySteps
  /\ probe' = [probe EXCEPT !.configured = apiKey,
                            !.aptosClient = [apiKey |-> apiKey],
                            !.steps = @ + 1]
  /\ NoEffect

\* part_004:23-32: Object.assign copies the fields of a new client into the
\* exported client, and those of a new service, which holds the new client,
\* into the exported service
updateApiKey(apiKey) ==
  /\ probe.fn = "updateApiKey"
  /\ probe.steps < MaxKeySteps
  /\ probe' = [probe EXCEPT !.configured = apiKey,
                            !.aptosClient = [apiKey |-> apiKey],
                            !.nftService = [client |-> [apiKey |-> apiKey]],
                            !.steps = @ + 1]
  /\ NoEffect

\* the client a request goes through
ClientOf(via) ==
  IF via = "aptosClient" THEN probe.aptosClient
  ELSE probe.nftService.client

\* AptosClient.ts:52-84, 1298: queryGraphQL through the exported client or
\* through the service; the request is kept with the key configured then
SendGraphQL(via) ==
  /\ probe.fn = "updateApiKey"
  /\ probe.steps < MaxKeySteps
  /\ probe' = [probe EXCEPT
       !.sent = Append(@, [via |-> via, configured |-> probe.configured,
                           request |-> RequestOf(nftIndexerEndpoint,
                                                 ClientOf(via).apiKey)]),
       !.steps = @ + 1]
  /\ NoEffect

\* AptosClient.ts:138-161, 1579: queryAnalytics through the exported client
\* or through the service
SendAnalytics(via) ==
  /\ probe.fn = "updateApiKey"
  /\ probe.steps < MaxKeySteps
  /\ probe' = [probe EXCEPT
       !.sent = Append(@, [via |-> via, configured |-> probe.configured,
                           request |-> AnalyticsRequestOf(
                                         "/nft/collection/list_by_volume",
                                         ClientOf(via).apiKey)]),
       !.steps = @ + 1]
  /\ NoEffect

\* the values of the x-api-key headers of a request
ApiKeyHeaders(request) ==
  { h[2] : h \in { g \in request.headers : g[1] = "x-api-key" } }

\* C24: every request of queryGraphQL and queryAnalytics carries an x-api-key
\* header equal to the configured key, and none when no key is configured;
\* after updateApiKey(k) every request through aptosClient and nftService
\* uses k.
C24_RequestsCarryConfiguredKey ==
  probe.fn = "updateApiKey"
    => \A i \in 1..Len(probe.sent) :
         ApiKeyHeaders(probe.sent[i].request) =
           IF probe.sent[i].configured = "" THEN {}
           ELSE {probe.sent[i].configured}

\* the key was changed from k1 to k2 and a request through the service and a
\* request through the client went out with k2 afterwards
C24_Witness ==
  /\ probe.fn = "updateApiKey"
  /\ Len(probe.sent) >= 3
  /\ probe.sent[1].configured = "k1"
  /\ ApiKeyHeaders(probe.sent[1].request) = {"k1"}
  /\ \E i, j \in 2..Len(probe.sent) :
       /\ probe.sent[i].via = "nftService"
       /\ probe.sent[j].via = "aptosClient"
       /\ probe.sent[i].configured = "k2"
       /\ probe.sent[j].configured = "k2"
       /\ ApiKeyHeaders(probe.sent[i].request) = {"k2"}
       /\ ApiKeyHeaders(probe.sent[j].request) = {"k2"}

\* ------------------------------- part_001:23-100: the wallet connector
\* number of clicks and adapter answers in one run
MaxWalletSteps == 4

Petra == [name |-> "Petra", url |-> "https://petra.app"]
Martian == [name |-> "Martian", url |-> "https://martianwallet.xyz"]
Pontem == [name |-> "Pontem Wallet", url |-> ""]
PetraByUrl == [name |-> "Aptos Wallet", url |-> "https://PETRA.app/get"]

\* the lists of wallets the adapter detects
WalletLists ==
  { <<>>, <<Martian>>, <<Pontem, Martian>>, <<Petra>>, <<Martian, Petra>>,
    <<PetraByUrl>>, <<Pontem, PetraByUrl>> }

\* part_001:43-49: the index of the first wallet whose name or url contains
\* petra, 0 when find returns undefined
findPetraWallet(wallets) ==
  LET found == { i \in 1..Len(wallets) :
                   \/ includes(toLowerCase(wallets[i].name), "petra")
                   \/ /\ wallets[i].url # ""
                      /\ includes(toLowerCase(wallets[i].url), "petra") }
  IN IF found = {} THEN 0
     ELSE CHOOSE i \in found : \A j \in found : i <= j

NotFoundMessage ==
  "Petra wallet not found. Please install the Petra wallet extension."

WalletInputs ==
  { [fn |-> "wallet", stage |-> "run", wallets |-> w, connected |-> FALSE,
     account |-> "", walletError |-> Null, connectCalls |-> <<>>,
     pending |-> FALSE, last |-> "none", steps |-> 0] :
      w \in WalletLists }

\* variant: connect is called with the supported wallet's name whether or
\* not it was found
handleConnectWallet_AlwaysConnects ==
  /\ probe.fn = "wallet"
  /\ probe.steps < MaxWalletSteps
  /\ probe' = [probe EXCEPT !.walletError = Null,
                            !.connectCalls = Append(@, "Petra"),
                            !.pending = TRUE,
                            !.last = "handleConnectWallet",
                            !.steps = @ + 1]
  /\ NoEffect

\* part_001:76-93
handleConnectWallet ==
  /\ probe.fn = "wallet"
  /\ probe.steps < MaxWalletSteps
  /\ LET petraWallet == findPetraWallet(probe.wallets)
     IN IF petraWallet = 0
        THEN probe' = [probe EXCEPT !.walletError = NotFoundMessage,
                                    !.last = "handleConnectWallet",
                                    !.steps = @ + 1]
        ELSE probe' = [probe EXCEPT
                         !.walletError = Null,
                         !.connectCalls =
                            Append(@, probe.wallets[petraWallet].name),
                         !.pending = TRUE,
                         !.last = "handleConnectWallet",
                         !.steps = @ + 1]
  /\ NoEffect

\* part_001:89-92: the adapter settles a connect: the wallet is connected, or
\* the promise rejects and the catch sets the error
ConnectSettles(ok) ==
  /\ probe.fn = "wallet"
  /\ probe.pending
  /\ probe.steps < MaxWalletSteps
  /\ probe' = [probe EXCEPT
       !.pending = FALSE,
       !.connected = IF ok THEN TRUE ELSE @,
       !.account = IF ok THEN "0xabc" ELSE @,
       !.walletError =
          IF ok THEN @
          ELSE "Failed to connect to Petra wallet: Unknown error",
       !.last = "ConnectSettles",
       !.steps = @ + 1]
  /\ NoEffect

\* part_001:95-99: the adapter disconnects
handleDisconnect ==
  /\ probe.fn = "wallet"
  /\ probe.connected
  /\ probe.steps < MaxWalletSteps
  /\ probe' = [probe EXCEPT !.connected = FALSE, !.account = "",
                            !.last = "handleDisconnect", !.steps = @ + 1]
  /\ NoEffect

\* C25: when the supported wallet is not in the detected list, a connect
\* attempt sets an error message, does not call the adapter's connect and
\* leaves connected and account as they were.
C25_MissingWalletFails ==
  [][ (/\ probe.fn = "wallet"
       /\ probe'.steps = probe.steps + 1
       /\ probe'.last = "handleConnectWallet"
       /\ findPetraWallet(probe.wallets) = 0)
        => /\ probe'.walletError = NotFoundMessage
           /\ probe'.connectCalls = probe.connectCalls
           /\ probe'.pending = probe.pending
           /\ probe'.connected = probe.connected
           /\ probe'.account = probe.account ]_vars

\* a connect attempt was made with another wallet detected and Petra absent
C25_Witness ==
  /\ probe.fn = "wallet"
  /\ probe.last = "handleConnectWallet"
  /\ Len(probe.wallets) > 0
  /\ findPetraWallet(probe.wallets) = 0
  /\ probe.walletError = NotFoundMessage
  /\ probe.connectCalls = <<>>
  /\ ~probe.connected

\* ------------- Dashboard.tsx:147-183, 272-315: the my-nfts tab of the Dashboard
\* number of handler and effect steps in one run
MaxTabSteps == 4

\* Dashboard.tsx:183: the dependency list of the effect of loadWalletNFTs
\* (the marketplace, collection and sort order stay as they are here)
WalletDeps(d) == <<d.account, d.currentPage, d.activeTab>>

\* the component mounted on the my-nfts tab, with or without a wallet; the
\* effect of the first render is waiting to run
TabInputs ==
  { [fn |-> "myNfts", stage |-> "run", account |-> a, currentPage |-> 1,
     activeTab |-> "my-nfts", effectPending |-> TRUE, requests |-> <<>>,
     last |-> "mount", steps |-> 0] : a \in {"", "0xabc"} }

\* a handler has set the state to d: React renders when a state value
\* changed, and schedules the effect when one of its dependencies changed
MyNftsRender(d, handler) ==
  probe' = [d EXCEPT !.effectPending = (WalletDeps(d) # WalletDeps(probe)),
                     !.last = handler, !.steps = probe.steps + 1]

MyNftsEvent ==
  /\ probe.fn = "myNfts"
  /\ ~probe.effectPending
  /\ probe.steps < MaxTabSteps
  /\ NoEffect

\* Dashboard.tsx:148-181: the effect runs loadWalletNFTs, which sends
\* fetchNFTs when a wallet is connected and the tab is my-nfts
MyNftsRunEffect ==
  /\ probe.fn = "myNfts"
  /\ probe.effectPending
  /\ probe.steps < MaxTabSteps
  /\ probe' = [probe EXCEPT
       !.effectPending = FALSE,
       !.requests = IF probe.account # "" /\ probe.activeTab = "my-nfts"
                    THEN Append(@, [address |-> probe.account,
                                    page |-> probe.currentPage])
                    ELSE @,
       !.last = "loadWalletNFTs",
       !.steps = @ + 1]
  /\ NoEffect

\* Dashboard.tsx:272-278 on the my-nfts tab
MyNftsPageChange(page) ==
  /\ MyNftsEvent
  /\ MyNftsRender(IF probe.activeTab = "my-nfts"
                  THEN [probe EXCEPT !.currentPage = page] ELSE probe,
                  "handlePageChange")

\* Dashboard.tsx:280-282
MyNftsTabChange(key) ==
  /\ MyNftsEvent
  /\ MyNftsRender([probe EXCEPT !.activeTab = key], "handleTabChange")

\* the wallet adapter connects or disconnects the account
MyNftsAccountChange(address) ==
  /\ MyNftsEvent
  /\ MyNftsRender([probe EXCEPT !.account = address], "account")

\* Dashboard.tsx:298-315 on the my-nfts tab: setCurrentPage(currentPage)
\* stores the value the state has (the listings branch is handleRefresh)
MyNftsRefresh ==
  /\ MyNftsEvent
  /\ probe.activeTab = "my-nfts"
  /\ MyNftsRender(IF probe.account # ""
                  THEN [probe EXCEPT !.currentPage = probe.currentPage]
                  ELSE probe,
                  "handleRefresh")

\* C26: Refresh on the my-nfts tab with a connected wallet triggers a
\* re-fetch: after handleRefresh the effect is scheduled that issues a new
\* fetchNFTs request for the current address and page.
C26_RefreshRefetchesWalletNFTs ==
  [][ (/\ probe.fn = "myNfts"
       /\ probe'.steps = probe.steps + 1
       /\ probe'.last = "handleRefresh"
       /\ probe.activeTab = "my-nfts"
       /\ probe.account # "")
        => probe'.effectPending ]_vars

\* ----------------------------------------- the configs of versioned identifiers
ConfigsReturned ==
  /\ probe.fn = "fetchMarketplaceConfigs"
  /\ probe.stage = "output"
  /\ probe.answer.kind = "items"

\* the identifier without its trailing version suffix
StripVersion(name) == RemoveNumberSuffix(RemoveVSuffix(name))

\* the configs whose rawValues lists the identifier
ConfigsListing(configs, name) ==
  { i \in 1..Len(configs) :
      \E k \in 1..Len(split(configs[i].rawValues, ",")) :
        split(configs[i].rawValues, ",")[k] = name }

\* the identifiers the upstream returned
Returned(answer) == { answer.items[i] : i \in 1..Len(answer.items) } \ {""}

MaxRankSteps == 6

\* unnamed/part_000:45: const pageSize = 10 of CollectionRankings
rankingsPageSize == 10

\* unnamed/part_000:470, 529, 588: the keys of the three tabs
RankingTabs == {"volume", "sales", "floor"}

\* unnamed/part_000:463-465: the time periods the model selects among
TimePeriods == {"24h", "7d"}

\* the lengths of the arrays fetchCollectionsBy* return (api.ts:1407-1420:
\* whatever data.data holds, [] on every failure); the analytics API is sent
\* limit = 10 and may answer with more rows than that
RowCounts == {0, 3, 10, 11, 21}

Max2(a, b) == IF a >= b THEN a ELSE b

\* a full page does not announce a further page
inferTotalItems_NoFurtherPage(currentPage, length) ==
  IF length >= rankingsPageSize
  THEN Max2(currentPage * rankingsPageSize, length)
  ELSE IF length = 0 /\ currentPage > 1
  THEN (currentPage - 1) * rankingsPageSize
  ELSE ((currentPage - 1) * rankingsPageSize) + length

\* unnamed/part_000:110-121 (and 131-137, 147-153): the value handed to
\* setTotalItems after a page of `length` rows was loaded for currentPage
inferTotalItems(currentPage, length) ==
  IF length >= rankingsPageSize
  THEN Max2((currentPage * rankingsPageSize)
              + (IF length = rankingsPageSize THEN rankingsPageSize ELSE 0),
            length)
  ELSE IF length = 0 /\ currentPage > 1
  THEN (currentPage - 1) * rankingsPageSize
  ELSE ((currentPage - 1) * rankingsPageSize) + length

\* unnamed/part_000:494-498: the number of pages the Pagination offers for
\* total = totalItems and pageSize = 10
PagesOffered(totalItems) ==
  (totalItems + rankingsPageSize - 1) \div rankingsPageSize

\* unnamed/part_000:30-46: the component after its first render, the load
\* effect not yet run. loads are the fetchData calls in flight, each with the
\* tab and page of its closure; data is the number of rows held per tab;
\* last is the load that completed last, full the highest page that was
\* loaded with exactly 10 rows, most the longest page that was loaded
RankInputs ==
  { [fn |-> "rankings", stage |-> "run", activeTab |-> "volume",
     timePeriod |-> "24h", currentPage |-> 1, totalItems |-> 0,
     loading |-> TRUE, effectPending |-> TRUE,
     data |-> [t \in RankingTabs |-> 0], loads |-> <<>>,
     last |-> [page |-> 0, rows |-> 0], full |-> 0, most |-> 0,
     steps |-> 0] }

\* a handler runs between two renders, after the effects of the last render
RankingsEvent ==
  /\ probe.fn = "rankings"
  /\ ~probe.effectPending
  /\ probe.steps < MaxRankSteps

\* unnamed/part_000:164: the effect is run again when one of activeTab,
\* timePeriod, currentPage differs from the last render
RankingsRender(d) ==
  /\ probe' = [d EXCEPT
       !.effectPending = <<d.activeTab, d.timePeriod, d.currentPage>>
                         # <<probe.activeTab, probe.timePeriod,
                             probe.currentPage>>,
       !.steps = @ + 1]
  /\ NoEffect

\* unnamed/part_000:88-108, 161: the effect calls fetchData, which sets
\* loading and awaits fetchCollectionsBy* for the tab and page of the render
fetchData ==
  /\ probe.fn = "rankings"
  /\ probe.effectPending
  /\ probe.steps < MaxRankSteps
  /\ probe' = [probe EXCEPT
       !.effectPending = FALSE,
       !.loading = TRUE,
       !.loads = Append(@, [tab |-> probe.activeTab,
                            page |-> probe.currentPage]),
       !.steps = @ + 1]
  /\ NoEffect

\* unnamed/part_000:104-121, 157-159: the i-th load in flight completes with
\* `length` rows: the rows of its tab, totalItems and loading are set
fetchDataSettles(i, length) ==
  /\ probe.fn = "rankings"
  /\ i \in 1..Len(probe.loads)
  /\ probe.steps < MaxRankSteps
  /\ LET load == probe.loads[i]
     IN probe' = [probe EXCEPT
          !.loads = SubSeq(@, 1, i - 1) \o SubSeq(@, i + 1, Len(@)),
          !.data = [@ EXCEPT ![load.tab] = length],
          !.totalItems = inferTotalItems(load.page, length),
          !.loading = FALSE,
          !.last = [page |-> load.page, rows |-> length],
          !.full = IF length = rankingsPageSize THEN Max2(@, load.page)
                   ELSE @,
          !.most = Max2(@, length),
          !.steps = @ + 1]
  /\ NoEffect

\* unnamed/part_000:166-169
RankingsTabChange(key) ==
  /\ RankingsEvent
  /\ key # probe.activeTab
  /\ RankingsRender([probe EXCEPT !.activeTab = key, !.currentPage = 1])

\* unnamed/part_000:171-174
RankingsTimePeriodChange(value) ==
  /\ RankingsEvent
  /\ value # probe.timePeriod
  /\ RankingsRender([probe EXCEPT !.timePeriod = value, !.currentPage = 1])

\* unnamed/part_000:176-178, 478-502: the Pagination is rendered when no load
\* is shown as running and the tab holds rows; it offers the pages of
\* totalItems
RankingsPageChange(page) ==
  /\ RankingsEvent
  /\ ~probe.loading
  /\ probe.data[probe.activeTab] > 0
  /\ page \in 1..PagesOffered(probe.totalItems)
  /\ page # probe.currentPage
  /\ RankingsRender([probe EXCEPT !.currentPage = page])

LoadCompleted == probe.fn = "rankings" /\ probe.last.page # 0

Filters(d) ==
  <<d.selectedMarketplace, d.searchCollection, d.sortOrder,
    d.hideIncompleteMetadata>>

\* the listings load issued by a step, when the step issued one
LoadIssued == calls'[Len(calls')]

\* C29: a step that changes a filter leaves the listings page at 1; the load
\* effect scheduled by a change runs before anything else changes the state,
\* and the load it issues carries the filters and the page of that state, so
\* the load triggered by a filter change is issued with page 1
C29_FilterChangeResetsPage ==
  [][ /\ Filters(dash') # Filters(dash) => dash'.listingsPage = 1
      /\ effectPending => /\ inputs' = inputs
                          /\ Filters(dash') = Filters(dash)
                          /\ dash'.listingsPage = dash.listingsPage
      /\ Len(calls') > Len(calls) =>
           /\ effectPending
           /\ LoadIssued.params = LoadParams(dash)
           /\ LoadIssued.params.page = dash.listingsPage ]_vars

\* a load for page 2 was followed by a filter change and its load for page 1
C29_Witness ==
  \E i \in 1..(Len(calls) - 1) :
    /\ calls[i].caller = "Dashboard"
    /\ calls[i + 1].caller = "Dashboard"
    /\ calls[i].params.page = 2
    /\ calls[i + 1].params.page = 1
    /\ calls[i + 1].params.sortOrder # calls[i].params.sortOrder
    /\ dash.listingsPage = 1

\* ------------------------------------------- Dashboard: Refresh

\* every request issued has settled and no load effect is waiting to run
AllSettled(cs, pending) ==
  /\ ~pending
  /\ \A i \in 1..Len(cs) : cs[i].pc = "settled"

\* C30: only a Refresh click on the listings tab sets refreshing; without
\* user input the load effect is scheduled again only by the step that
\* resets refreshing, so a click is followed by at most two loads (at most
\* 1 + 2 * inputs loads in all); and once every request has settled and no
\* effect is waiting, refreshing and listingsLoading are false
C30_RefreshLoadsFinitelyOften ==
  [][ /\ (~dash.refreshing /\ dash'.refreshing) =>
           /\ inputs' = inputs + 1
           /\ dash.activeTab = "listings"
           /\ effectPending'
      /\ (inputs' = inputs /\ effectPending') =>
           /\ dash.refreshing
           /\ ~dash'.refreshing
      /\ Len(calls') <= 1 + (2 * inputs')
      /\ AllSettled(calls', effectPending') =>
           /\ ~dash'.refreshing
           /\ ~dash'.listingsLoading ]_vars

\* one Refresh click, and nothing else, after the first load: its load went
\* to the network, the load that followed the reset of refreshing was issued
\* with the same parameters, and all is settled
C30_Witness ==
  /\ inputs = 1
  /\ Len(calls) = 3
  /\ AllSettled(calls, effectPending)
  /\ calls[2].key = calls[1].key
  /\ calls[3].key = calls[1].key
  /\ calls[2].via = "network"
  /\ ~dash.refreshing
  /\ ~dash.listingsLoading

\* ------------------------------------------- the functions applied to inputs

InitFn ==
  /\ inputs = 0
  /\ now = 0
  /\ listingsCache = EmptyCache
  /\ calls = <<>>
  /\ effectPending = FALSE
  /\ dash = [activeTab |-> "my-nfts", selectedMarketplace |-> "",
             searchCollection |-> "", listingsPage |-> 1,
             sortOrder |-> "timestamp_desc",
             hideIncompleteMetadata |-> FALSE, refreshing |-> FALSE,
             listingsLoading |-> TRUE, listingsError |-> Null,
             listings |-> <<>>, listingsTotal |-> 0]
  /\ \/ probe \in ImageInputs
     \/ probe \in ListingInputs
     \/ probe \in ResponseInputs
     \/ probe \in PageInputs
     \/ probe \in QueryInputs
     \/ probe \in FacadeInputs
     \/ probe \in NameInputs
     \/ probe \in ConfigInputs
     \/ probe \in StatsInputs
     \/ probe \in SelectInputs
     \/ probe \in KeyInputs
     \/ probe \in WalletInputs
     \/ probe \in TabInputs
     \/ probe \in RankInputs

NextFn ==
  \/ Apply_getBestImageUrl
  \/ Apply_NormalizeListing
  \/ Apply_NormalizeListings
  \/ Apply_fetchActiveListings
  \/ Apply_queryGraphQL
  \/ Apply_facade_fetchActiveListings
  \/ Apply_formatMarketplaceName
  \/ Apply_fetchMarketplaceConfigs
  \/ Apply_fetchAggregatorStats
  \/ Apply_handleMarketplaceChange
  \/ \E k \in ApiKeys : updateApiKey(k)
  \/ \E via \in {"aptosClient", "nftService"} : SendGraphQL(via)
  \/ \E via \in {"aptosClient", "nftService"} : SendAnalytics(via)
  \/ handleConnectWallet
  \/ \E ok \in BOOLEAN : ConnectSettles(ok)
  \/ handleDisconnect
  \/ MyNftsRunEffect
  \/ \E pg \in 1..MaxPage : MyNftsPageChange(pg)
  \/ \E k \in Tabs : MyNftsTabChange(k)
  \/ \E a \in {"", "0xabc"} : MyNftsAccountChange(a)
  \/ MyNftsRefresh
  \/ fetchData
  \/ \E i \in 1..MaxRankSteps, n \in RowCounts : fetchDataSettles(i, n)
  \/ \E k \in RankingTabs : RankingsTabChange(k)
  \/ \E v \in TimePeriods : RankingsTimePeriodChange(v)
  \/ \E pg \in 1..MaxRankSteps : RankingsPageChange(pg)

SpecFn == InitFn /\ [][NextFn]_vars

====
